---- MODULE Spec2Model ----
(***************************************************************************)
(* Cross-correlation engine of ComputerVision (cuda_cross_correlation.cuh):*)
(* the direct kernel crossCorrelationKernel, the shared-memory kernel      *)
(* sharedMemoryCrossCorrelationKernel and their host orchestrators         *)
(* crossCorrelation, sharedMemoryCrossCorrelation and the two timed ones,  *)
(* crossCorrelationTimeWithAllocation and ...TimeWithoutAllocation.        *)
(*                                                                         *)
(* Matrices are row-major functions over 0..n-1, as the code's pointers.   *)
(* T is uint8_t: every value kept in a T is reduced modulo TMod.           *)
(* A launch runs its thread blocks one at a time, the block scheduler      *)
(* sweeping the grid upwards or downwards; inside the resident block the   *)
(* threads interleave freely.  Each thread's staging and each thread's     *)
(* search is one step.                                                     *)
(* Memory that is allocated and not yet written holds an arbitrary        *)
(* pattern (garbage).  Every device call may fail; the model records which *)
(* failures the code reads (checkCudaError) and which it does not.         *)
(***************************************************************************)
EXTENDS Integers, Sequences, FiniteSets, TLC

\* ------------------------------------------------------------------ bounds
MaxRows == 5
MaxCols == 5
MaxKernel == 5
MaxThreadsPerBlock == 4
MaxSeed == 2
MaxGarbage == 1
PixelHi == 16
LargeDim == 4096
LargeSpread == 3
MaxCalls == 2
MaxCallCols == 4
MaxCallThreads == 2
MaxTileSide == 64
MaxFormatExtent == 40
MaxFormats == 2
LiveSpread == 1

\* ------------------------------------------------------- program constants
TMod == 256
FloatMantissa == 24
KERNEL_SIZE == 3
MAX_SIZE == 512
WIDTH == 10
HEIGHT == 3

VARIABLES
    variant,        \* which orchestrator runs: "direct" | "shared" | "timed_alloc" |
                    \* "timed_kernel", or "probe" for a kernel thread on its own
    kernel_size, matrix_rows, matrix_cols, block_dim_x, block_dim_y,
    h_src1, h_src2, h_dest,         \* caller's matrices
    garbage,        \* selects what uninitialised device and shared memory holds
    hpc,            \* host position, named after the call about to be made
    src_size, dest_size,            \* the orchestrator's locals of lines 288-291
    d_src1, d_src2, d_dest,         \* device buffers, <<>> while not allocated
    dimGrid, dimBlock,              \* launch geometry [x, y]
    pending,        \* linear ids of the blocks not yet started
    resident,       \* the running block <<blockIdx.x, blockIdx.y>> or NoBlock
    tpc,            \* position of each thread <<threadIdx.x, threadIdx.y>> of it
    d_shmem1, d_shmem2,             \* the resident block's shared sub-tiles
    staged,         \* the shared indices the resident block has stored to
    heap,           \* handles of the live device allocations
    ptr,            \* the pointers d_src1, d_src2, d_dest of the call, 0 while unset
    issued,         \* number of handles the runtime has issued so far
    own,            \* handles issued to the current call
    misuse,         \* a buffer that is not live, or not the call's, was used or freed
    events,         \* handles of the live timing events
    ev,             \* the events start and stop of the call, 0 while unset
    fault,          \* the steps of the call whose device call did not succeed
    cerr,           \* diagnostics written to std::cerr
    history,        \* the calls that returned before the current one
    writes,         \* per destination index, how many stores it received
    scan,           \* per destination index, the search that produced the store
    oob,            \* an access outside a buffer has happened
    probe,          \* result of a single thread run on its own
    maxThreadsPerBlock,             \* deviceProp.maxThreadsPerBlock of device DEV
    max_thread_per_block,           \* the benchmark mains' local of lines 51 / 116
    form            \* the formats the standard-formats main has still to visit

vars == <<variant, kernel_size, matrix_rows, matrix_cols, block_dim_x, block_dim_y,
          h_src1, h_src2, h_dest, garbage, hpc, src_size, dest_size,
          d_src1, d_src2, d_dest, dimGrid, dimBlock, pending, resident, tpc, d_shmem1, d_shmem2,
          staged, heap, ptr, issued, own, misuse, events, ev, fault, cerr, history,
          writes, scan, oob, probe, maxThreadsPerBlock, max_thread_per_block, form>>

NoBlock == <<>>
\* outside the benchmark mains no device property has been queried
NoBench == maxThreadsPerBlock = 0 /\ max_thread_per_block = 0 /\ form = <<>>
NoScan == [winner |-> 0, tmps |-> <<>>]
NoProbe == [dPos |-> -1, value |-> 0, winner |-> 0, tmps |-> <<>>]

Min(S) == CHOOSE x \in S : \A y \in S : x <= y
Max(S) == CHOOSE x \in S : \A y \in S : x >= y

\* ceil(a / b) of lines 293 and 516, a and b positive
Ceil(a, b) == (a + b - 1) \div b

\* conversion of an integer to T
ToT(v) == v % TMod

\* kernel_size / 2 (line 222)
ShiftOnAxis(k) == k \div 2

\* matrix_src_cols - (kernel_size - 1), matrix_src_rows - (kernel_size - 1)
DestCols(k, cols) == cols - (k - 1)
DestRows(k, rows) == rows - (k - 1)

RECURSIVE Pow2(_)
Pow2(n) == IF n = 0 THEN 1 ELSE 2 * Pow2(n - 1)

\* the distance between neighbouring floats at a non-negative integer x
RECURSIVE FloatSpacing(_, _)
FloatSpacing(x, q) == IF x < q * Pow2(FloatMantissa) THEN q ELSE FloatSpacing(x, 2 * q)

\* a non-negative integer as a float: the nearest value with a FloatMantissa-bit
\* significand, ties to the even significand
ToFloat(x) ==
    LET q == FloatSpacing(x, 1)
        lo == (x \div q) * q
    IN IF 2 * (x - lo) < q THEN lo
       ELSE IF 2 * (x - lo) > q THEN lo + q
       ELSE IF (lo \div q) % 2 = 0 THEN lo ELSE lo + q

\* the number of destination elements, (rows - (k - 1)) * (cols - (k - 1))
DestCells(k, rows, cols) == DestRows(k, rows) * DestCols(k, cols)

\* src_size of line 288, in elements (sizeof(T) = 1)
SrcSize(rows, cols) == rows * cols

\* dest_size of lines 289-291: float dest_rows and dest_cols, their float product
\* converted to std::size_t
DestSize(k, rows, cols) == ToFloat(ToFloat(DestRows(k, rows)) * ToFloat(DestCols(k, cols)))

\* DPos with the source's row stride
DPosSourceStride(dRow, dCol, k, cols) == dRow * cols + dCol

\* dPos of line 230
DPos(dRow, dCol, k, cols) == dRow * DestCols(k, cols) + dCol

\* ------------------------------------------------------- the direct kernel
\* lines 239-241: k and l advance together, the loop ends on l alone
RECURSIVE ColLoop(_, _, _, _, _, _, _, _, _, _)
ColLoop(tmp, j, k, l, i, sCol, s1, s2, ks, cols) ==
    IF l <= sCol + ShiftOnAxis(ks)
    THEN ColLoop(ToT(tmp + s1[j * cols + k + (i - ShiftOnAxis(ks))] * s2[j * cols + l]),
                 j, k + 1, l + 1, i, sCol, s1, s2, ks, cols)
    ELSE tmp

\* lines 238-242
RECURSIVE RowLoop(_, _, _, _, _, _, _, _, _)
RowLoop(tmp, j, i, sRow, sCol, s1, s2, ks, cols) ==
    IF j <= sRow + ShiftOnAxis(ks)
    THEN RowLoop(ColLoop(tmp, j, 0, sCol - ShiftOnAxis(ks), i, sCol, s1, s2, ks, cols),
                 j + 1, i, sRow, sCol, s1, s2, ks, cols)
    ELSE tmp

\* DirectScore with the first window row left out
DirectScoreFromSecondRow(i, sRow, sCol, s1, s2, ks, cols) ==
    RowLoop(0, sRow - ShiftOnAxis(ks) + 1, i, sRow, sCol, s1, s2, ks, cols)

\* lines 237-242: tmp for offset i
DirectScore(i, sRow, sCol, s1, s2, ks, cols) ==
    RowLoop(0, sRow - ShiftOnAxis(ks), i, sRow, sCol, s1, s2, ks, cols)

\* Replaces with a strict comparison
ReplacesStrict(tmp, max) == tmp > max

\* line 244: the comparison
Replaces(tmp, max) == tmp >= max

\* KeptIndex keeping the scanned offset itself
KeptIndexScanned(i, ks) == i

\* KeptIndex taking off shift_on_axis, as the note of line 468 plans
KeptIndexShifted(i, ks) == i - ShiftOnAxis(ks)

\* line 246: what the search keeps for offset i
KeptIndex(i, ks) == i - 1

\* lines 236-248 over a sequence of already computed tmp values; tmps[n] is the
\* tmp of offset first + n - 1.  The result is [max, max_idx, winner], winner
\* being the offset i of the last replacement (0 when none happened).
\* lines 244-247: one pass of the loop body after tmp is known
ArgMaxStep(n, acc, tmps, first, ks) ==
    IF Replaces(tmps[n], acc.max)
    THEN [max |-> tmps[n], max_idx |-> KeptIndex(first + n - 1, ks), winner |-> first + n - 1]
    ELSE acc

RECURSIVE ArgMaxLoop(_, _, _, _, _)
ArgMaxLoop(n, acc, tmps, first, ks) ==
    IF n > Len(tmps) THEN acc
    ELSE ArgMaxLoop(n + 1, ArgMaxStep(n, acc, tmps, first, ks), tmps, first, ks)

ArgMax(tmps, first, ks) ==
    ArgMaxLoop(1, [max |-> 0, max_idx |-> 0, winner |-> 0], tmps, first, ks)

\* the offsets line 236 scans: shift_on_axis <= i < matrix_src_cols - shift_on_axis
ScanFirst(ks) == ShiftOnAxis(ks)

\* ScanCount of a loop that stops one offset early
ScanCountShort(ks, cols) ==
    IF cols - ShiftOnAxis(ks) > ShiftOnAxis(ks) THEN cols - 2 * ShiftOnAxis(ks) - 1 ELSE 0

ScanCount(ks, cols) ==
    IF cols - ShiftOnAxis(ks) > ShiftOnAxis(ks) THEN cols - 2 * ShiftOnAxis(ks) ELSE 0

\* DirectCoords with the source row taken from threadIdx.y alone
DirectCoordsRowInBlock(bx, by, tx, ty, bdx, bdy, ks) ==
    [sRow |-> ty + ShiftOnAxis(ks),
     sCol |-> bdx * bx + tx + ShiftOnAxis(ks),
     dRow |-> bdy * by + ty,
     dCol |-> bdx * bx + tx]

\* lines 222-226
DirectCoords(bx, by, tx, ty, bdx, bdy, ks) ==
    [sRow |-> bdy * by + ty + ShiftOnAxis(ks),
     sCol |-> bdx * bx + tx + ShiftOnAxis(ks),
     dRow |-> bdy * by + ty,
     dCol |-> bdx * bx + tx]

\* line 235
DirectGuard(c, ks, rows, cols) ==
    c.dRow < DestRows(ks, rows) /\ c.dCol < DestCols(ks, cols)

\* lines 236-249 for one guarded thread: where it stores and what
DirectThread(c, s1, s2, ks, cols) ==
    LET tmps == [n \in 1..ScanCount(ks, cols) |->
                    DirectScore(ScanFirst(ks) + n - 1, c.sRow, c.sCol, s1, s2, ks, cols)]
        r == ArgMax(tmps, ScanFirst(ks), ks)
    IN [dPos |-> DPos(c.dRow, c.dCol, ks, cols), value |-> ToT(r.max_idx),
        winner |-> r.winner, tmps |-> tmps]


\* ------------------------------------------------------ launch geometry
\* dimBlock(block_dim_y, block_dim_x, 1) of lines 294 and 517
DimBlock(bdim_x, bdim_y) == [x |-> bdim_y, y |-> bdim_x]

\* DirectGrid with the two tile extents exchanged
DirectGridExchanged(ks, rows, cols, bdim_x, bdim_y) ==
    [x |-> Ceil(DestCols(ks, cols), bdim_x), y |-> Ceil(DestRows(ks, rows), bdim_y)]

\* dimGrid of line 293: over the destination extents
DirectGrid(ks, rows, cols, bdim_x, bdim_y) ==
    [x |-> Ceil(DestCols(ks, cols), bdim_y), y |-> Ceil(DestRows(ks, rows), bdim_x)]

\* SharedGrid over the destination extents
SharedGridOverDest(ks, rows, cols, bdim_x, bdim_y) ==
    [x |-> Ceil(DestCols(ks, cols), bdim_y), y |-> Ceil(DestRows(ks, rows), bdim_x)]

\* dimGrid of line 516: over the source extents
SharedGrid(ks, rows, cols, bdim_x, bdim_y) ==
    [x |-> Ceil(cols, bdim_y), y |-> Ceil(rows, bdim_x)]

Threads == {<<tx, ty>> : tx \in 0..(dimBlock.x - 1), ty \in 0..(dimBlock.y - 1)}
BlockIds == 0..(dimGrid.x * dimGrid.y - 1)
BlockOf(b) == <<b % dimGrid.x, b \div dimGrid.x>>

Filled(n, v) == [idx \in 0..(n - 1) |-> v]

\* memory nobody has written yet: all zero for g = 0, otherwise a one at every
\* (g+1)-th element
Uninit(n, g) == [idx \in 0..(n - 1) |-> IF g > 0 /\ idx % (g + 1) = 0 THEN 1 ELSE 0]

\* ------------------------------------------------------------ the inputs
KernelSizes == {k \in 3..MaxKernel : k % 2 = 1}
TileShapes == {s \in (1..MaxThreadsPerBlock) \X (1..MaxThreadsPerBlock) :
                  s[1] * s[2] <= MaxThreadsPerBlock}

\* a striped matrix: seed s marks every (s+1)-th element
Stripe(s, n) == [idx \in 0..(n - 1) |-> IF idx % (s + 1) = 0 THEN 1 ELSE 0]

\* src1 and src2 of main.cu
RefSrc1 == [idx \in 0..(HEIGHT * WIDTH - 1) |-> IF idx = 16 THEN 1 ELSE 0]
RefSrc2 == [idx \in 0..(HEIGHT * WIDTH - 1) |->
               IF idx \in {0, 1, 2, 3, 4, 5, 10, 11, 12, 16, 20, 21, 22, 23, 24, 25}
               THEN 1 ELSE 0]

\* the pointers and events of a call before it sets them
NoPtr == [d_src1 |-> 0, d_src2 |-> 0, d_dest |-> 0]
NoEv == [start |-> 0, stop |-> 0]

\* state at entry of an orchestrator; the caller owns the sources and a zeroed
\* destination (main.cu line 73)
Entry(v, ks, rows, cols, bdim_x, bdim_y, s1, s2, g) ==
    /\ variant = v
    /\ kernel_size = ks /\ matrix_rows = rows /\ matrix_cols = cols
    /\ block_dim_x = bdim_x /\ block_dim_y = bdim_y
    /\ h_src1 = s1 /\ h_src2 = s2
    /\ h_dest = Filled(DestCells(ks, rows, cols), 0)
    /\ garbage = g
    /\ NoBench
    /\ hpc = "entry"
    /\ src_size = 0 /\ dest_size = 0
    /\ d_src1 = <<>> /\ d_src2 = <<>> /\ d_dest = <<>>
    /\ dimGrid = [x |-> 0, y |-> 0]
    /\ dimBlock = [x |-> 0, y |-> 0]
    /\ pending = {}
    /\ resident = NoBlock
    /\ tpc = <<>>
    /\ d_shmem1 = <<>> /\ d_shmem2 = <<>>
    /\ staged = {}
    /\ heap = {} /\ ptr = NoPtr /\ issued = 0 /\ own = {} /\ misuse = FALSE
    /\ events = {} /\ ev = NoEv
    /\ fault = {} /\ cerr = <<>>
    /\ history = <<>>
    /\ writes = Filled(DestCells(ks, rows, cols), 0)
    /\ scan = Filled(DestCells(ks, rows, cols), NoScan)
    /\ oob = FALSE
    /\ probe = NoProbe

InitSweep ==
    \E v \in {"direct", "shared"}, ks \in KernelSizes, shape \in TileShapes,
       g \in 0..MaxGarbage, sa \in 1..MaxSeed, sb \in 1..MaxSeed :
      \E rows \in ks..MaxRows, cols \in ks..MaxCols :
        Entry(v, ks, rows, cols, shape[1], shape[2],
              Stripe(sa, rows * cols), Stripe(sb, rows * cols), g)

InitReference ==
    \E v \in {"direct", "shared"}, shape \in TileShapes, g \in 0..MaxGarbage :
        Entry(v, KERNEL_SIZE, HEIGHT, WIDTH, shape[1], shape[2], RefSrc1, RefSrc2, g)

Init == InitSweep \/ InitReference

\* ------------------------------------------------------------- the host
hostVars == <<hpc, d_src1, d_src2, d_dest, h_dest>>
benchVars == <<maxThreadsPerBlock, max_thread_per_block, form>>
callVars == <<variant, kernel_size, matrix_rows, matrix_cols, block_dim_x, block_dim_y,
              h_src1, h_src2, garbage, benchVars>>
localVars == <<src_size, dest_size, dimGrid, dimBlock>>
inputVars == <<callVars, localVars>>
deviceVars == <<pending, resident, tpc, d_shmem1, d_shmem2, staged, writes, scan, oob>>
heapVars == <<heap, ptr, issued, own, misuse>>
eventVars == <<events, ev>>
logVars == <<fault, cerr>>
runtimeVars == <<heapVars, eventVars, logVars, history>>

Variants == {"direct", "shared", "timed_alloc", "timed_kernel"}
Orchestrated == variant \in Variants
Timed == variant \in {"timed_alloc", "timed_kernel"}

\* the device calls of each orchestrator in program order; hpc names the call about
\* to be made
Steps ==
    [direct |-> <<"entry", "malloc_src1", "copy_src1", "malloc_src2", "copy_src2",
                  "malloc_dest", "launch", "synchronize", "copy_dest", "free", "returned">>,
     shared |-> <<"entry", "malloc_src1", "copy_src1", "malloc_src2", "copy_src2",
                  "malloc_dest", "launch", "synchronize", "copy_dest", "free", "returned">>,
     timed_alloc |-> <<"entry", "malloc_src1", "malloc_src2", "malloc_dest",
                       "create_start", "create_stop", "record_start",
                       "copy_src1", "copy_src2", "launch", "copy_dest",
                       "record_stop", "event_synchronize", "elapsed_time",
                       "destroy_events", "free", "returned">>,
     timed_kernel |-> <<"entry", "malloc_src1", "copy_src1", "malloc_src2", "copy_src2",
                        "malloc_dest", "create_start", "create_stop", "record_start",
                        "launch", "record_stop", "event_synchronize", "elapsed_time",
                        "copy_dest", "destroy_events", "free", "returned">>]

\* the call that follows the one at hpc
After ==
    LET s == Steps[variant]
    IN s[(CHOOSE n \in 1..Len(s) : s[n] = hpc) + 1]

\* __LINE__ at the checkCudaError call of each checked step
CheckLines ==
    [direct |-> [malloc_src1 |-> 297, copy_src1 |-> 300, malloc_src2 |-> 303,
                 copy_src2 |-> 306, malloc_dest |-> 309, copy_dest |-> 316],
     shared |-> [malloc_src1 |-> 520, copy_src1 |-> 523, malloc_src2 |-> 526,
                 copy_src2 |-> 529, malloc_dest |-> 532, copy_dest |-> 539],
     timed_alloc |-> [malloc_src1 |-> 587, malloc_src2 |-> 590, malloc_dest |-> 593,
                      copy_src1 |-> 606, copy_src2 |-> 609, copy_dest |-> 614],
     timed_kernel |-> [malloc_src1 |-> 674, copy_src1 |-> 677, malloc_src2 |-> 680,
                       copy_src2 |-> 683, malloc_dest |-> 686, copy_dest |-> 706]]

CudaErrors == {"cudaSuccess", "cudaErrorUnknown"}

\* the status of a device call whose result the code drops: it stays in the runtime
NoteFault(failed) ==
    fault' = IF failed THEN fault \cup {hpc} ELSE fault

\* CheckCudaError that releases the call's buffers before it ends the process
CheckCudaErrorFrees(err, func, continue) ==
    IF err = "cudaSuccess"
    THEN continue /\ UNCHANGED logVars
    ELSE /\ cerr' = Append(cerr, [func |-> func, err |-> err,
                                  line |-> CheckLines[variant][hpc]])
         /\ fault' = fault \cup {hpc}
         /\ hpc' = "exited"
         /\ heap' = heap \ own
         /\ d_src1' = <<>> /\ d_src2' = <<>> /\ d_dest' = <<>>
         /\ UNCHANGED <<h_dest, ptr, issued, own, misuse>>

\* CheckCudaError that writes its diagnostic and lets the orchestrator go on
CheckCudaErrorReturns(err, func, continue) ==
    IF err = "cudaSuccess"
    THEN continue /\ UNCHANGED logVars
    ELSE /\ continue
         /\ cerr' = Append(cerr, [func |-> func, err |-> err,
                                  line |-> CheckLines[variant][hpc]])
         /\ fault' = fault \cup {hpc}

\* checkCudaError (lines 188-194): a status other than cudaSuccess writes one
\* diagnostic (func, cudaGetErrorString(err), line) and ends the process
CheckCudaError(err, func, continue) ==
    IF err = "cudaSuccess"
    THEN continue /\ UNCHANGED logVars
    ELSE /\ cerr' = Append(cerr, [func |-> func, err |-> err,
                                  line |-> CheckLines[variant][hpc]])
         /\ fault' = fault \cup {hpc}
         /\ hpc' = "exited"
         /\ UNCHANGED <<d_src1, d_src2, d_dest, h_dest, heapVars>>

\* a successful cudaMalloc(&p, ...): a fresh allocation, its handle stored in p
CudaMalloc(p) ==
    /\ issued' = issued + 1
    /\ heap' = heap \cup {issued + 1}
    /\ own' = own \cup {issued + 1}
    /\ ptr' = [ptr EXCEPT ![p] = issued + 1]
    /\ UNCHANGED misuse

\* the pointers in ps are handed to a copy or to the kernel
UseBuffers(ps) ==
    /\ misuse' = (misuse \/ \E p \in ps : ptr[p] \notin (heap \cap own))
    /\ UNCHANGED <<heap, ptr, issued, own>>

\* lines 288-294 / 511-517 / 578-584 / 665-671
Locals ==
    /\ hpc = "entry"
    /\ src_size' = SrcSize(matrix_rows, matrix_cols)
    /\ dest_size' = DestSize(kernel_size, matrix_rows, matrix_cols)
    /\ dimGrid' = IF variant = "shared"
                  THEN SharedGrid(kernel_size, matrix_rows, matrix_cols, block_dim_x, block_dim_y)
                  ELSE DirectGrid(kernel_size, matrix_rows, matrix_cols, block_dim_x, block_dim_y)
    /\ dimBlock' = DimBlock(block_dim_x, block_dim_y)
    /\ hpc' = After
    /\ UNCHANGED <<callVars, d_src1, d_src2, d_dest, h_dest, deviceVars, runtimeVars, probe>>

\* lines 296-297 / 519-520 / 586-587 / 673-674
MallocSrc1 ==
    /\ Orchestrated /\ hpc = "malloc_src1"
    /\ \E err \in CudaErrors :
         CheckCudaError(err, "cudaMalloc",
            /\ CudaMalloc("d_src1")
            /\ d_src1' = Uninit(src_size, garbage)
            /\ hpc' = After
            /\ UNCHANGED <<d_src2, d_dest, h_dest>>)
    /\ UNCHANGED <<inputVars, deviceVars, eventVars, history, probe>>

\* CopySrc1 with source and destination of the copy exchanged
CopySrc1ToHost ==
    /\ Orchestrated /\ hpc = "copy_src1"
    /\ UseBuffers({"d_src1"})
    /\ h_src1' = d_src1
    /\ hpc' = After
    /\ UNCHANGED <<variant, kernel_size, matrix_rows, matrix_cols, block_dim_x, block_dim_y,
                   h_src2, garbage, localVars, d_src1, d_src2, d_dest, h_dest,
                   deviceVars, eventVars, logVars, history, probe, benchVars>>

\* lines 299-300 / 522-523 / 605-606 / 676-677
CopySrc1 ==
    /\ Orchestrated /\ hpc = "copy_src1"
    /\ \E err \in CudaErrors :
         CheckCudaError(err, "cudaMemcpy",
            /\ UseBuffers({"d_src1"})
            /\ d_src1' = h_src1
            /\ hpc' = After
            /\ UNCHANGED <<d_src2, d_dest, h_dest>>)
    /\ UNCHANGED <<inputVars, deviceVars, eventVars, history, probe>>

\* lines 302-303 / 525-526 / 589-590 / 679-680
MallocSrc2 ==
    /\ Orchestrated /\ hpc = "malloc_src2"
    /\ \E err \in CudaErrors :
         CheckCudaError(err, "cudaMalloc",
            /\ CudaMalloc("d_src2")
            /\ d_src2' = Uninit(src_size, garbage)
            /\ hpc' = After
            /\ UNCHANGED <<d_src1, d_dest, h_dest>>)
    /\ UNCHANGED <<inputVars, deviceVars, eventVars, history, probe>>

\* lines 305-306 / 528-529 / 608-609 / 682-683
CopySrc2 ==
    /\ Orchestrated /\ hpc = "copy_src2"
    /\ \E err \in CudaErrors :
         CheckCudaError(err, "cudaMemcpy",
            /\ UseBuffers({"d_src2"})
            /\ d_src2' = h_src2
            /\ hpc' = After
            /\ UNCHANGED <<d_src1, d_dest, h_dest>>)
    /\ UNCHANGED <<inputVars, deviceVars, eventVars, history, probe>>

\* lines 308-309 / 531-532 / 592-593 / 685-686
MallocDest ==
    /\ Orchestrated /\ hpc = "malloc_dest"
    /\ \E err \in CudaErrors :
         CheckCudaError(err, "cudaMalloc",
            /\ CudaMalloc("d_dest")
            /\ d_dest' = Uninit(dest_size, garbage)
            /\ hpc' = After
            /\ UNCHANGED <<d_src1, d_src2, h_dest>>)
    /\ UNCHANGED <<inputVars, deviceVars, eventVars, history, probe>>

\* lines 311 / 534 / 611 / 696: a launch that succeeds queues every block of the grid
\* and returns; one that fails queues nothing.  Its status is not read.
Launch ==
    /\ Orchestrated /\ hpc = "launch"
    /\ \E err \in CudaErrors :
        /\ pending' = IF err = "cudaSuccess" THEN BlockIds ELSE {}
        /\ NoteFault(err # "cudaSuccess")
    /\ UseBuffers({"d_src1", "d_src2", "d_dest"})
    /\ hpc' = After
    /\ UNCHANGED <<inputVars, d_src1, d_src2, d_dest, h_dest, resident, tpc,
                   d_shmem1, d_shmem2, staged, writes, scan, oob, eventVars, cerr,
                   history, probe>>

\* KernelDone for calls that do not wait for the kernel
KernelDoneAtOnce == TRUE

\* what cudaDeviceSynchronize, cudaEventSynchronize and cudaMemcpy wait for
KernelDone == pending = {} /\ resident = NoBlock

\* lines 313 / 536: cudaDeviceSynchronize returns once the kernel has completed; its
\* status is not read
DeviceSynchronize ==
    /\ Orchestrated /\ hpc = "synchronize"
    /\ KernelDone
    /\ \E err \in CudaErrors : NoteFault(err # "cudaSuccess")
    /\ hpc' = After
    /\ UNCHANGED <<inputVars, deviceVars, d_src1, d_src2, d_dest, h_dest, heapVars,
                   eventVars, cerr, history, probe>>

\* lines 315-316 / 538-539 / 613-614 / 705-706: a cudaMemcpy on the default stream
\* starts after the kernel launched before it has completed
CopyDest ==
    /\ Orchestrated /\ hpc = "copy_dest"
    /\ KernelDone
    /\ \E err \in CudaErrors :
         CheckCudaError(err, "cudaMemcpy",
            /\ UseBuffers({"d_dest"})
            /\ h_dest' = [p \in DOMAIN h_dest |-> IF p < dest_size THEN d_dest[p] ELSE h_dest[p]]
            /\ hpc' = After
            /\ UNCHANGED <<d_src1, d_src2, d_dest>>)
    /\ UNCHANGED <<inputVars, deviceVars, eventVars, history, probe>>

\* one cudaFree(p): a live allocation is released unless the call fails
Freed(p, err) == err = "cudaSuccess" /\ ptr[p] \in heap

\* Free without the cudaFree of d_dest
FreeSources ==
    /\ Orchestrated /\ hpc = "free"
    /\ d_src1' = <<>> /\ d_src2' = <<>>
    /\ heap' = heap \ {ptr.d_src1, ptr.d_src2}
    /\ hpc' = After
    /\ UNCHANGED <<inputVars, deviceVars, h_dest, d_dest, ptr, issued, own, misuse,
                   eventVars, logVars, history, probe>>

\* lines 318 / 541 / 626 / 710: three cudaFree calls, their statuses not read
Free ==
    /\ Orchestrated /\ hpc = "free"
    /\ \E e1 \in CudaErrors, e2 \in CudaErrors, e3 \in CudaErrors :
        /\ d_src1' = IF Freed("d_src1", e1) THEN <<>> ELSE d_src1
        /\ d_src2' = IF Freed("d_src2", e2) THEN <<>> ELSE d_src2
        /\ d_dest' = IF Freed("d_dest", e3) THEN <<>> ELSE d_dest
        /\ heap' = heap \ ((IF Freed("d_src1", e1) THEN {ptr.d_src1} ELSE {})
                           \cup (IF Freed("d_src2", e2) THEN {ptr.d_src2} ELSE {})
                           \cup (IF Freed("d_dest", e3) THEN {ptr.d_dest} ELSE {}))
        /\ NoteFault({e1, e2, e3} # {"cudaSuccess"})
    /\ misuse' = (misuse \/ \E p \in DOMAIN ptr : ptr[p] \notin (heap \cap own))
    /\ hpc' = After
    /\ UNCHANGED <<inputVars, deviceVars, h_dest, ptr, issued, own, eventVars, cerr,
                   history, probe>>

\* ------------------------------------------------- the timed orchestrators
\* lines 597 / 690: cudaEventCreate(&start), status not read
CreateStart ==
    /\ Timed /\ hpc = "create_start"
    /\ \E err \in CudaErrors :
        /\ IF err = "cudaSuccess"
           THEN /\ issued' = issued + 1
                /\ events' = events \cup {issued + 1}
                /\ ev' = [ev EXCEPT !.start = issued + 1]
           ELSE UNCHANGED <<issued, events, ev>>
        /\ NoteFault(err # "cudaSuccess")
    /\ hpc' = After
    /\ UNCHANGED <<inputVars, deviceVars, d_src1, d_src2, d_dest, h_dest, heap, ptr, own,
                   misuse, cerr, history, probe>>

\* lines 598 / 691: cudaEventCreate(&stop), status not read
CreateStop ==
    /\ Timed /\ hpc = "create_stop"
    /\ \E err \in CudaErrors :
        /\ IF err = "cudaSuccess"
           THEN /\ issued' = issued + 1
                /\ events' = events \cup {issued + 1}
                /\ ev' = [ev EXCEPT !.stop = issued + 1]
           ELSE UNCHANGED <<issued, events, ev>>
        /\ NoteFault(err # "cudaSuccess")
    /\ hpc' = After
    /\ UNCHANGED <<inputVars, deviceVars, d_src1, d_src2, d_dest, h_dest, heap, ptr, own,
                   misuse, cerr, history, probe>>

\* a call on the events es, status not read: it fails on an event that is not live
EventCall(es) ==
    /\ NoteFault(\E e \in es : ev[e] \notin events)
    /\ hpc' = After
    /\ UNCHANGED <<inputVars, deviceVars, d_src1, d_src2, d_dest, h_dest, heapVars, ev,
                   cerr, history, probe>>

\* lines 603 / 694: cudaEventRecord(start, 0)
RecordStart == Timed /\ hpc = "record_start" /\ EventCall({"start"}) /\ UNCHANGED events

\* lines 617 / 699: cudaEventRecord(stop, 0) enqueues the event and returns
RecordStop == Timed /\ hpc = "record_stop" /\ EventCall({"stop"}) /\ UNCHANGED events

\* lines 619 / 700: cudaEventSynchronize(stop) returns once the work enqueued before
\* the event has completed, or at once when stop is no live event
EventSynchronize ==
    /\ Timed /\ hpc = "event_synchronize"
    /\ KernelDone \/ ev.stop \notin events
    /\ EventCall({"stop"}) /\ UNCHANGED events

\* lines 622 / 703: cudaEventElapsedTime(&elapsedTime, start, stop)
ElapsedTime ==
    Timed /\ hpc = "elapsed_time" /\ EventCall({"start", "stop"}) /\ UNCHANGED events

\* lines 624-625 / 708-709: cudaEventDestroy(start); cudaEventDestroy(stop)
DestroyEvents ==
    /\ Timed /\ hpc = "destroy_events"
    /\ events' = events \ {ev.start, ev.stop}
    /\ EventCall({"start", "stop"})

\* ----------------------------------------------------------- the device
\* the blocks the scheduler may start next: either end of the grid at first,
\* then the next one in the direction taken
Startable ==
    IF pending = BlockIds THEN {Min(pending), Max(pending)}
    ELSE IF 0 \in pending THEN {Max(pending)} ELSE {Min(pending)}

StartBlock ==
    /\ Orchestrated /\ resident = NoBlock /\ pending # {}
    /\ \E b \in Startable :
        /\ resident' = BlockOf(b)
        /\ pending' = pending \ {b}
    /\ tpc' = [t \in Threads |-> IF variant = "shared" THEN "stage" ELSE "run"]
    /\ d_shmem1' = IF variant = "shared"
                   THEN Uninit((dimBlock.y + 2 * ShiftOnAxis(kernel_size)) * matrix_cols, garbage)
                   ELSE <<>>
    /\ d_shmem2' = d_shmem1'
    /\ staged' = {}
    /\ UNCHANGED <<inputVars, hostVars, runtimeVars, writes, scan, oob, probe>>

\* a thread returns; the block leaves the device with its last thread
ThreadReturns(t) ==
    LET after == [tpc EXCEPT ![t] = "done"] IN
    IF \A u \in Threads : after[u] = "done"
    THEN /\ resident' = NoBlock /\ tpc' = <<>>
         /\ d_shmem1' = <<>> /\ d_shmem2' = <<>> /\ staged' = {}
    ELSE tpc' = after /\ UNCHANGED <<resident, d_shmem1, d_shmem2, staged>>

\* *(d_dest + dPos) = max_idx (lines 249 and 471)
StoreDest(r) ==
    IF r.dPos \in DOMAIN d_dest
    THEN /\ d_dest' = [d_dest EXCEPT ![r.dPos] = r.value]
         /\ writes' = [writes EXCEPT ![r.dPos] = @ + 1]
         /\ scan' = [scan EXCEPT ![r.dPos] = [winner |-> r.winner, tmps |-> r.tmps]]
         /\ UNCHANGED oob
    ELSE oob' = TRUE /\ UNCHANGED <<d_dest, writes, scan>>

\* crossCorrelationKernel (lines 214-251), one thread
DirectKernelThread(t) ==
    /\ variant # "shared" /\ resident # NoBlock /\ tpc[t] = "run"
    /\ LET c == DirectCoords(resident[1], resident[2], t[1], t[2],
                             dimBlock.x, dimBlock.y, kernel_size)
       IN IF DirectGuard(c, kernel_size, matrix_rows, matrix_cols)
          THEN StoreDest(DirectThread(c, d_src1, d_src2, kernel_size, matrix_cols))
          ELSE UNCHANGED <<d_dest, writes, scan, oob>>
    /\ ThreadReturns(t)
    /\ UNCHANGED <<inputVars, hpc, d_src1, d_src2, h_dest, pending, runtimeVars, probe>>

DirectKernel == \E t \in Threads : DirectKernelThread(t)

\* ------------------------------------------------- the shared-memory kernel
\* int((float(matrix_src_cols - 1) / blockDim.x) + 1), the bound of the copy loops
CopyIterations(cols, bdx) == ((cols - 1) \div bdx) + 1

\* the columns i * blockDim.x + threadIdx.x a copy loop visits (lines 384, 395, 405, 412)
CopyColumns(tx, bdx, cols) ==
    LET n == Cardinality({i \in 0..(CopyIterations(cols, bdx) - 1) : i * bdx + tx < cols})
    IN [m \in 1..n |-> (m - 1) * bdx + tx]

\* one copy loop: shared row shRow takes source row srcRow at the thread's columns
RowCopy(shRow, srcRow, tx, bdx, cols) ==
    LET cs == CopyColumns(tx, bdx, cols)
    IN [m \in 1..Len(cs) |-> [sh |-> shRow * cols + cs[m], src |-> srcRow * cols + cs[m]]]

\* lines 394-399: j = 1 .. kernel_size / 2
RECURSIVE HaloBelow(_, _, _, _, _, _, _)
HaloBelow(j, sRow, tx, ty, bdx, ks, cols) ==
    IF j <= ShiftOnAxis(ks)
    THEN RowCopy(ty + j, sRow + j, tx, bdx, cols) \o HaloBelow(j + 1, sRow, tx, ty, bdx, ks, cols)
    ELSE <<>>

\* lines 404-409: j counts from 0, k from (blockDim.x - 1) - kernel_size / 2, an
\* unsigned value: below zero it wraps to a huge one and the loop does not run
RECURSIVE HaloAbove(_, _, _, _, _, _, _, _)
HaloAbove(j, k, sRow, tx, ty, bdx, ks, cols) ==
    IF k >= 0 /\ j < ShiftOnAxis(ks) /\ k <= ShiftOnAxis(ks)
    THEN RowCopy(ty, sRow + k, tx, bdx, cols) \o HaloAbove(j + 1, k + 1, sRow, tx, ty, bdx, ks, cols)
    ELSE <<>>

\* lines 383-421: the stores of one thread into the shared sub-tiles, in program
\* order, each as [sh: shared index, src: source index]
Staging(bx, by, tx, ty, bdx, bdy, ks, cols) ==
    LET sRow == bdy * by + ty IN
    IF bx = 0
    THEN RowCopy(ty, sRow, tx, bdx, cols)
         \o (IF tx = bdy - 1 THEN HaloBelow(1, sRow, tx, ty, bdx, ks, cols) ELSE <<>>)
    ELSE IF bx = bdx - 1
    THEN (IF tx = 0
          THEN HaloAbove(0, (bdx - 1) - ShiftOnAxis(ks), sRow, tx, ty, bdx, ks, cols)
          ELSE <<>>)
         \o RowCopy(ty + ShiftOnAxis(ks), sRow + ShiftOnAxis(ks) + 1, tx, bdx, cols)
    ELSE <<>>

\* a read of a source buffer; past its end it finds whatever lies there
SrcRead(src, idx) == IF idx \in DOMAIN src THEN src[idx] ELSE garbage

RECURSIVE ApplyStaging(_, _, _, _)
ApplyStaging(sh, src, ws, n) ==
    IF n > Len(ws) THEN sh
    ELSE ApplyStaging([sh EXCEPT ![ws[n].sh] = SrcRead(src, ws[n].src)], src, ws, n + 1)

\* lines 348-349, 428-429
SharedCoords(bx, by, tx, ty, bdx, bdy, ks) ==
    [sRow |-> bdy * by + ty,
     sCol |-> bdx * bx + tx,
     dRow |-> bdy * by + ty - ShiftOnAxis(ks),
     dCol |-> bdx * bx + tx - ShiftOnAxis(ks)]

\* SharedGuard without the upper bound on the row
SharedGuardUnbounded(c, ks, rows, cols) ==
    /\ c.sCol <= DestCols(ks, cols)
    /\ c.sRow >= ShiftOnAxis(ks) /\ c.sCol >= ShiftOnAxis(ks)

\* line 457
SharedGuard(c, ks, rows, cols) ==
    /\ c.sRow <= DestRows(ks, rows) /\ c.sCol <= DestCols(ks, cols)
    /\ c.sRow >= ShiftOnAxis(ks) /\ c.sCol >= ShiftOnAxis(ks)

\* lines 461-463
RECURSIVE SharedColLoop(_, _, _, _, _, _, _, _, _, _)
SharedColLoop(tmp, j, k, l, i, sCol, sh1, sh2, ks, cols) ==
    IF l <= sCol + ShiftOnAxis(ks)
    THEN SharedColLoop(ToT(tmp + sh1[j * cols + k + (i - ShiftOnAxis(ks))] * sh2[j * cols + l]),
                       j, k + 1, l + 1, i, sCol, sh1, sh2, ks, cols)
    ELSE tmp

\* lines 460-464: j = 0 .. blockDim.y - 1
RECURSIVE SharedRowLoop(_, _, _, _, _, _, _, _, _)
SharedRowLoop(tmp, j, i, sCol, bdy, sh1, sh2, ks, cols) ==
    IF j < bdy
    THEN SharedRowLoop(SharedColLoop(tmp, j, 0, sCol - ShiftOnAxis(ks), i, sCol, sh1, sh2, ks, cols),
                       j + 1, i, sCol, bdy, sh1, sh2, ks, cols)
    ELSE tmp

\* lines 459-464: tmp for offset i
SharedScore(i, sCol, bdy, sh1, sh2, ks, cols) ==
    SharedRowLoop(0, 0, i, sCol, bdy, sh1, sh2, ks, cols)

\* lines 458-471 for one guarded thread
SharedThread(c, bdy, sh1, sh2, ks, cols) ==
    LET tmps == [n \in 1..ScanCount(ks, cols) |->
                    SharedScore(ScanFirst(ks) + n - 1, c.sCol, bdy, sh1, sh2, ks, cols)]
        r == ArgMax(tmps, ScanFirst(ks), ks)
    IN [dPos |-> DPos(c.dRow, c.dCol, ks, cols), value |-> ToT(r.max_idx),
        winner |-> r.winner, tmps |-> tmps]

\* lines 383-421, one thread up to the barrier of line 425
SharedStageThread(t) ==
    /\ variant = "shared" /\ resident # NoBlock /\ tpc[t] = "stage"
    /\ LET ws == Staging(resident[1], resident[2], t[1], t[2],
                         dimBlock.x, dimBlock.y, kernel_size, matrix_cols)
       IN /\ d_shmem1' = ApplyStaging(d_shmem1, d_src1, ws, 1)
          /\ d_shmem2' = ApplyStaging(d_shmem2, d_src2, ws, 1)
          /\ oob' = (oob \/ \E n \in 1..Len(ws) : ws[n].src \notin DOMAIN d_src1)
          /\ staged' = staged \cup {ws[n].sh : n \in 1..Len(ws)}
    /\ tpc' = [tpc EXCEPT ![t] = "barrier"]
    /\ UNCHANGED <<inputVars, hostVars, pending, resident, runtimeVars, writes, scan, probe>>

SharedStage == \E t \in Threads : SharedStageThread(t)

\* BarrierOpen for a barrier that counts only the threads waiting at it
BarrierAllWaiting == \A u \in Threads : tpc[u] = "barrier"

\* BarrierOpen without the barrier
BarrierAbsent == TRUE

\* __syncthreads() of line 425: passed once every thread of the block is at it
BarrierOpen == \A u \in Threads : tpc[u] # "stage"

\* lines 427-472, one thread after the barrier
SharedComputeThread(t) ==
    /\ variant = "shared" /\ resident # NoBlock /\ tpc[t] = "barrier"
    /\ BarrierOpen
    /\ LET c == SharedCoords(resident[1], resident[2], t[1], t[2],
                             dimBlock.x, dimBlock.y, kernel_size)
       IN IF SharedGuard(c, kernel_size, matrix_rows, matrix_cols)
          THEN /\ StoreDest(SharedThread(c, dimBlock.y, d_shmem1, d_shmem2,
                                         kernel_size, matrix_cols))
          ELSE UNCHANGED <<d_dest, writes, scan, oob>>
    /\ ThreadReturns(t)
    /\ UNCHANGED <<inputVars, hpc, d_src1, d_src2, h_dest, pending, runtimeVars, probe>>

SharedCompute == \E t \in Threads : SharedComputeThread(t)

Next ==
    \/ Locals
    \/ MallocSrc1 \/ CopySrc1 \/ MallocSrc2 \/ CopySrc2 \/ MallocDest
    \/ Launch \/ DeviceSynchronize \/ CopyDest \/ Free
    \/ StartBlock
    \/ DirectKernel
    \/ SharedStage \/ SharedCompute

Spec == Init /\ [][Next]_vars


\* ------------------------------------------ one kernel thread on its own
Pixels == {0, 1, PixelHi}

\* matrices with at most one non-zero element
OneHot(n) ==
    {Filled(n, 0)} \cup {[Filled(n, 0) EXCEPT ![p] = v] : p \in 0..(n - 1), v \in Pixels \ {0}}

\* matrices with two ones in one row
TwoInRow(rows, cols) ==
    {[Filled(rows * cols, 0) EXCEPT ![j * cols + c[1]] = 1, ![j * cols + c[2]] = 1] :
        j \in 0..(rows - 1), c \in {d \in (0..(cols - 1)) \X (0..(cols - 1)) : d[1] < d[2]}}

\* the largest square tile the device limit admits
SquareTile == Max({b \in 1..MaxThreadsPerBlock : b * b <= MaxThreadsPerBlock})

\* the device as crossCorrelationKernel finds it at line 311
InitKernel ==
    \E ks \in KernelSizes :
      \E rows \in ks..MaxRows, cols \in ks..MaxCols :
        \E s1 \in OneHot(rows * cols), s2 \in OneHot(rows * cols) \cup TwoInRow(rows, cols) :
          /\ variant = "probe"
          /\ kernel_size = ks /\ matrix_rows = rows /\ matrix_cols = cols
          /\ block_dim_x = SquareTile /\ block_dim_y = SquareTile
          /\ h_src1 = s1 /\ h_src2 = s2
          /\ h_dest = Filled(DestCells(ks, rows, cols), 0)
          /\ garbage = 0
          /\ NoBench
          /\ hpc = "synchronize"
          /\ src_size = SrcSize(rows, cols) /\ dest_size = DestSize(ks, rows, cols)
          /\ d_src1 = s1 /\ d_src2 = s2
          /\ d_dest = Filled(DestSize(ks, rows, cols), 0)
          /\ dimGrid = DirectGrid(ks, rows, cols, SquareTile, SquareTile)
          /\ dimBlock = DimBlock(SquareTile, SquareTile)
          /\ pending = {}
          /\ resident = NoBlock
          /\ tpc = <<>>
          /\ d_shmem1 = <<>> /\ d_shmem2 = <<>>
          /\ staged = {}
          /\ heap = {1, 2, 3} /\ ptr = [d_src1 |-> 1, d_src2 |-> 2, d_dest |-> 3]
          /\ issued = 3 /\ own = {1, 2, 3} /\ misuse = FALSE
          /\ events = {} /\ ev = NoEv
          /\ fault = {} /\ cerr = <<>>
          /\ history = <<>>
          /\ writes = Filled(DestCells(ks, rows, cols), 0)
          /\ scan = Filled(DestCells(ks, rows, cols), NoScan)
          /\ oob = FALSE
          /\ probe = NoProbe

\* crossCorrelationKernel (lines 214-251) for any one thread of the grid
ProbeDirectThread ==
    /\ variant = "probe" /\ probe = NoProbe
    /\ \E b \in BlockIds, t \in Threads :
         LET c == DirectCoords(BlockOf(b)[1], BlockOf(b)[2], t[1], t[2],
                               dimBlock.x, dimBlock.y, kernel_size)
         IN probe' = IF DirectGuard(c, kernel_size, matrix_rows, matrix_cols)
                     THEN DirectThread(c, d_src1, d_src2, kernel_size, matrix_cols)
                     ELSE NoProbe
    /\ UNCHANGED <<inputVars, hostVars, deviceVars, runtimeVars>>

NextKernel == ProbeDirectThread

\* sources that are zero but for at most one pixel in the first row
Sparse(n) == {Filled(n, 0)} \cup {[Filled(n, 0) EXCEPT ![p] = 1] : p \in 0..MaxSeed}

\* the device as crossCorrelationKernel finds it at line 611 or 696 in a call of the
\* widest size of the sweep; of the rows only those of the first row of windows are kept
InitWide ==
    \E ks \in KernelSizes :
      \E s1 \in Sparse(ks * MAX_SIZE), s2 \in Sparse(ks * MAX_SIZE) :
        /\ variant = "probe"
        /\ kernel_size = ks /\ matrix_rows = ks /\ matrix_cols = MAX_SIZE
        /\ block_dim_x = SquareTile /\ block_dim_y = SquareTile
        /\ h_src1 = s1 /\ h_src2 = s2
        /\ h_dest = Filled(DestCells(ks, ks, MAX_SIZE), 0)
        /\ garbage = 0
        /\ NoBench
        /\ hpc = "synchronize"
        /\ src_size = SrcSize(ks, MAX_SIZE) /\ dest_size = DestSize(ks, ks, MAX_SIZE)
        /\ d_src1 = s1 /\ d_src2 = s2
        /\ d_dest = Filled(DestSize(ks, ks, MAX_SIZE), 0)
        /\ dimGrid = DirectGrid(ks, ks, MAX_SIZE, SquareTile, SquareTile)
        /\ dimBlock = DimBlock(SquareTile, SquareTile)
        /\ pending = {}
        /\ resident = NoBlock
        /\ tpc = <<>>
        /\ d_shmem1 = <<>> /\ d_shmem2 = <<>>
        /\ staged = {}
        /\ heap = {1, 2, 3} /\ ptr = [d_src1 |-> 1, d_src2 |-> 2, d_dest |-> 3]
        /\ issued = 3 /\ own = {1, 2, 3} /\ misuse = FALSE
        /\ events = {} /\ ev = NoEv
        /\ fault = {} /\ cerr = <<>>
        /\ history = <<>>
        /\ writes = Filled(DestCells(ks, ks, MAX_SIZE), 0)
        /\ scan = Filled(DestCells(ks, ks, MAX_SIZE), NoScan)
        /\ oob = FALSE
        /\ probe = NoProbe

\* the threads followed pass by pass: those of the first and of the last block
WideBlocks == {Min(BlockIds), Max(BlockIds)}

\* tmp of every offset for the thread at (sRow, sCol), each computed when it is asked for
WideScores(sRow, sCol) ==
    [n \in 1..ScanCount(kernel_size, matrix_cols) |->
        DirectScore(ScanFirst(kernel_size) + n - 1, sRow, sCol, d_src1, d_src2,
                    kernel_size, matrix_cols)]

\* lines 222-235: a thread that passes the guard enters the scan with max = 0, max_idx = 0
WideEnter ==
    /\ variant = "probe" /\ probe = NoProbe
    /\ \E b \in WideBlocks, t \in Threads :
         LET c == DirectCoords(BlockOf(b)[1], BlockOf(b)[2], t[1], t[2],
                               dimBlock.x, dimBlock.y, kernel_size)
         IN /\ DirectGuard(c, kernel_size, matrix_rows, matrix_cols)
            /\ probe' = [c |-> c, passes |-> 0, stored |-> FALSE, value |-> 0,
                         acc |-> [max |-> 0, max_idx |-> 0, winner |-> 0]]
    /\ UNCHANGED <<inputVars, hostVars, deviceVars, runtimeVars>>

\* lines 236-248: one pass of the scan
WidePass ==
    /\ variant = "probe" /\ probe # NoProbe /\ ~probe.stored
    /\ probe.passes < ScanCount(kernel_size, matrix_cols)
    /\ probe' = [probe EXCEPT
                    !.passes = @ + 1,
                    !.acc = ArgMaxStep(probe.passes + 1, @, WideScores(probe.c.sRow, probe.c.sCol),
                                       ScanFirst(kernel_size), kernel_size)]
    /\ UNCHANGED <<inputVars, hostVars, deviceVars, runtimeVars>>

\* line 249: *(d_dest + dPos) = max_idx, the index converted to T
WideStore ==
    /\ variant = "probe" /\ probe # NoProbe /\ ~probe.stored
    /\ probe.passes = ScanCount(kernel_size, matrix_cols)
    /\ probe' = [probe EXCEPT !.stored = TRUE, !.value = ToT(probe.acc.max_idx)]
    /\ UNCHANGED <<inputVars, hostVars, deviceVars, runtimeVars>>

NextWide == WideEnter \/ WidePass \/ WideStore

SpecWide == InitWide /\ [][NextWide]_vars

SpecKernel == InitKernel /\ [][NextKernel]_vars


\* --------------------------------------------- the orchestrator's locals
SizeDims(ks) == (ks..MaxRows) \cup {LargeDim + d : d \in 0..LargeSpread}

\* entry of crossCorrelation with matrices of any extent; their contents, which the
\* locals do not depend on, are left out
InitSizes ==
    \E ks \in KernelSizes, shape \in TileShapes :
      \E rows \in SizeDims(ks), cols \in SizeDims(ks) :
        /\ variant = "direct"
        /\ kernel_size = ks /\ matrix_rows = rows /\ matrix_cols = cols
        /\ block_dim_x = shape[1] /\ block_dim_y = shape[2]
        /\ h_src1 = <<>> /\ h_src2 = <<>> /\ h_dest = <<>>
        /\ garbage = 0
        /\ NoBench
        /\ hpc = "entry"
        /\ src_size = 0 /\ dest_size = 0
        /\ d_src1 = <<>> /\ d_src2 = <<>> /\ d_dest = <<>>
        /\ dimGrid = [x |-> 0, y |-> 0]
        /\ dimBlock = [x |-> 0, y |-> 0]
        /\ pending = {}
        /\ resident = NoBlock
        /\ tpc = <<>>
        /\ d_shmem1 = <<>> /\ d_shmem2 = <<>>
        /\ staged = {}
        /\ heap = {} /\ ptr = NoPtr /\ issued = 0 /\ own = {} /\ misuse = FALSE
        /\ events = {} /\ ev = NoEv
        /\ fault = {} /\ cerr = <<>>
        /\ history = <<>>
        /\ writes = <<>> /\ scan = <<>>
        /\ oob = FALSE
        /\ probe = NoProbe

NextSizes == Locals

SpecSizes == InitSizes /\ [][NextSizes]_vars

\* ------------------------------------------------- successive calls
CallShapes == {s \in TileShapes : s[1] * s[2] <= MaxCallThreads}

\* the first call of a program that calls the orchestrators one after another
InitCalls ==
    \E v \in Variants, shape \in CallShapes, g \in 0..MaxGarbage, sa \in 1..MaxSeed :
        Entry(v, Min(KernelSizes), Min(KernelSizes), MaxCallCols, shape[1], shape[2],
              Stripe(sa, Min(KernelSizes) * MaxCallCols),
              Stripe(MaxSeed + 1 - sa, Min(KernelSizes) * MaxCallCols), g)

\* the caller, after a call has returned, calls an orchestrator again with the same
\* sources and a zeroed destination; what uninitialised memory holds may have changed
CallAgain ==
    /\ Orchestrated /\ hpc = "returned" /\ Len(history) + 1 < MaxCalls
    /\ history' = Append(history, [variant |-> variant, h_dest |-> h_dest, ok |-> fault = {}])
    /\ \E v \in Variants, g \in 0..MaxGarbage : variant' = v /\ garbage' = g
    /\ hpc' = "entry"
    /\ h_dest' = Filled(DestCells(kernel_size, matrix_rows, matrix_cols), 0)
    /\ src_size' = 0 /\ dest_size' = 0
    /\ dimGrid' = [x |-> 0, y |-> 0] /\ dimBlock' = [x |-> 0, y |-> 0]
    /\ ptr' = NoPtr /\ own' = {} /\ ev' = NoEv /\ fault' = {}
    /\ writes' = Filled(DestCells(kernel_size, matrix_rows, matrix_cols), 0)
    /\ scan' = Filled(DestCells(kernel_size, matrix_rows, matrix_cols), NoScan)
    /\ UNCHANGED <<kernel_size, matrix_rows, matrix_cols, block_dim_x, block_dim_y,
                   h_src1, h_src2, d_src1, d_src2, d_dest, pending, resident, tpc,
                   d_shmem1, d_shmem2, staged, heap, issued, misuse, events, cerr, oob, probe,
                   benchVars>>

NextCalls ==
    \/ Next
    \/ CreateStart \/ CreateStop \/ RecordStart \/ RecordStop
    \/ EventSynchronize \/ ElapsedTime \/ DestroyEvents
    \/ CallAgain

SpecCalls == InitCalls /\ [][NextCalls]_vars

\* ------------------------------------------------------------ the claims
RECURSIVE SumSeq(_)
SumSeq(q) == IF q = <<>> THEN 0 ELSE Head(q) + SumSeq(Tail(q))

\* the windowed dot product of the k x k windows of A at column a and B at column b,
\* rows r .. r+k-1, as an exact integer: the sum over j = r..r+k-1 and m = 0..k-1 of
\* A[j, m + a] * B[j, b + m]
WindowSum(A, B, r, a, b, ks, cols) ==
    SumSeq([n \in 1..(ks * ks) |->
               LET j == r + ((n - 1) \div ks)
                   m == (n - 1) % ks
               IN A[j * cols + m + a] * B[j * cols + b + m]])

\* the destination cell (row, column) a destination index stands for
CellRow(dPos) == dPos \div DestCols(kernel_size, matrix_cols)
CellCol(dPos) == dPos % DestCols(kernel_size, matrix_cols)
Shift == ShiftOnAxis(kernel_size)
Probed == probe # NoProbe

\* C2 as stated: for destination cell (r, c) and every scanned offset i in
\* [shift, cols - shift) the compared score is the sum over j = r..r+k-1, m = 0..k-1 of
\* A[j, m + (i - shift)] * B[j, c - shift + m] whenever that sum fits in T.  Stated on the
\* cells where c - shift is a column of B.
C2_AsStated ==
    (Probed /\ CellCol(probe.dPos) >= Shift) =>
        \A n \in 1..Len(probe.tmps) :
            LET sum == WindowSum(h_src1, h_src2, CellRow(probe.dPos), n - 1,
                                 CellCol(probe.dPos) - Shift, kernel_size, matrix_cols)
            IN sum < TMod => probe.tmps[n] = sum

\* C2 amended: the offsets scanned are exactly shift .. cols - shift - 1, and for
\* destination cell (r, c) and offset i the compared score is the sum over j = r..r+k-1,
\* m = 0..k-1 of A[j, m + (i - shift)] * B[j, c + m] whenever that sum fits in T.
C2_Score ==
    Probed =>
        /\ Len(probe.tmps) = matrix_cols - 2 * Shift
        /\ \A n \in 1..Len(probe.tmps) :
            LET i == Shift + n - 1
                sum == WindowSum(h_src1, h_src2, CellRow(probe.dPos), i - Shift,
                                 CellCol(probe.dPos), kernel_size, matrix_cols)
            IN sum < TMod => probe.tmps[n] = sum

\* a cell right of the first column whose scores are not all equal
C2_Witness ==
    /\ Probed /\ CellCol(probe.dPos) >= Shift /\ CellRow(probe.dPos) >= 1
    /\ \E n, m \in 1..Len(probe.tmps) : probe.tmps[n] = 1 /\ probe.tmps[m] = 0

\* C3: the winner of the search is the last scanned offset whose score equals the
\* maximum score; no offset with a smaller score displaces it.
C3_LastMaxWins ==
    Probed =>
        LET w == probe.winner - Shift + 1 IN
        /\ w \in 1..Len(probe.tmps)
        /\ \A n \in 1..Len(probe.tmps) : probe.tmps[n] <= probe.tmps[w]
        /\ \A n \in 1..Len(probe.tmps) : probe.tmps[n] = probe.tmps[w] => n <= w

\* two offsets tie at a positive maximum and a later offset scores less
C3_Witness ==
    /\ Probed
    /\ \E a, b, c \in 1..Len(probe.tmps) :
        /\ a < b /\ b < c
        /\ probe.tmps[a] = probe.tmps[b] /\ probe.tmps[b] > probe.tmps[c]
        /\ probe.winner = Shift + b - 1


AllZero(m) == \A idx \in DOMAIN m : m[idx] = 0

KernelCompleted == hpc \in {"copy_dest", "free", "returned"} /\ "launch" \notin fault
\* the call has returned and none of its device calls failed
Returned(v) == variant = v /\ hpc = "returned" /\ fault = {}

\* the buffer d_dest exists from its cudaMalloc to its cudaFree
DestLive == hpc \in {"launch", "synchronize", "copy_dest", "free"}
Written == IF DestLive THEN {p \in DOMAIN writes : writes[p] > 0} ELSE {}

DirectCell(r, c, s1, s2, ks, cols) ==
    DirectThread([sRow |-> r + ShiftOnAxis(ks), sCol |-> c + ShiftOnAxis(ks),
                  dRow |-> r, dCol |-> c], s1, s2, ks, cols)

\* the destination matrix of the direct kernel for sources s1, s2
DirectDest(s1, s2, ks, rows, cols) ==
    [p \in 0..(DestCells(ks, rows, cols) - 1) |->
        DirectCell(p \div DestCols(ks, cols), p % DestCols(ks, cols), s1, s2, ks, cols).value]

\* C5 as stated, on the buffers: for all valid (rows, cols, k) the device
\* buffers are sized rows*cols elements for each source and (rows-(k-1))*(cols-(k-1))
\* elements for the destination, the destination having rows-(k-1) rows and cols-(k-1)
\* columns.
C5_BufferSizes ==
    hpc = "malloc_src1" =>
        /\ src_size = matrix_rows * matrix_cols
        /\ dest_size = (matrix_rows - (kernel_size - 1)) * (matrix_cols - (kernel_size - 1))

SrcLive1 == hpc \in {"copy_src1", "malloc_src2", "copy_src2", "malloc_dest", "launch",
                     "synchronize", "copy_dest", "free"}

\* C5 below 2^24 destination elements: the destination has rows-(k-1) rows and cols-(k-1) columns, both fewer than the
\* source's, cell (r, c) is stored at index r*(cols-(k-1)) + c, and the device buffers
\* hold rows*cols elements per source and (rows-(k-1))*(cols-(k-1)) for the destination.
C5_Layout ==
    /\ SrcLive1 => DOMAIN d_src1 = 0..(matrix_rows * matrix_cols - 1)
    /\ DestLive =>
        /\ DOMAIN d_src2 = 0..(matrix_rows * matrix_cols - 1)
        /\ DOMAIN d_dest = 0..((matrix_rows - (kernel_size - 1))
                                 * (matrix_cols - (kernel_size - 1)) - 1)
    /\ Returned("direct") =>
        /\ DOMAIN h_dest = 0..((matrix_rows - (kernel_size - 1))
                                 * (matrix_cols - (kernel_size - 1)) - 1)
        /\ matrix_rows - (kernel_size - 1) < matrix_rows
        /\ matrix_cols - (kernel_size - 1) < matrix_cols
        /\ \A r \in 0..(matrix_rows - (kernel_size - 1) - 1),
              c \in 0..(matrix_cols - (kernel_size - 1) - 1) :
             LET cell == DirectCell(r, c, h_src1, h_src2, kernel_size, matrix_cols)
                 at == r * (matrix_cols - (kernel_size - 1)) + c
             IN h_dest[at] = cell.value /\ scan[at].tmps = cell.tmps

\* a returned direct call with a destination of several rows and more columns than rows
C5_Witness ==
    /\ Returned("direct")
    /\ DestRows(kernel_size, matrix_rows) = 2 /\ DestCols(kernel_size, matrix_cols) = 3
    /\ \E p, q \in DOMAIN h_dest : h_dest[p] # h_dest[q]


\* C6: in a call of the direct orchestrator, for any tile shape and any order of blocks
\* and threads, no destination cell is ever stored to twice, and once the kernel has
\* completed every destination cell has been stored to exactly once.
C6_DirectOnce ==
    variant = "direct" =>
        /\ \A p \in DOMAIN writes : writes[p] <= 1
        /\ KernelCompleted => \A p \in DOMAIN writes : writes[p] = 1

\* a completed direct launch of several blocks whose grid over-covers the destination
C6_Witness ==
    /\ variant = "direct" /\ hpc = "copy_dest" /\ KernelCompleted
    /\ dimGrid.x * dimGrid.y > 1
    /\ dimGrid.x * dimBlock.x > DestCols(kernel_size, matrix_cols)
    /\ dimGrid.y * dimBlock.y > DestRows(kernel_size, matrix_rows)
    /\ \A p \in DOMAIN writes : writes[p] = 1

\* C7 as stated: in a call of the tiled orchestrator, for every odd k >= 3 and any tile
\* shape, no cell is stored to twice and once the kernel has completed every destination
\* cell has been stored to exactly once.
C7_SharedOnce ==
    variant = "shared" =>
        /\ \A p \in DOMAIN writes : writes[p] <= 1
        /\ KernelCompleted => \A p \in DOMAIN writes : writes[p] = 1

\* C1 as stated: for the same inputs and tile shape the tiled orchestrator returns the
\* destination matrix the direct kernel produces.
C1_SameDestination ==
    Returned("shared") =>
        h_dest = DirectDest(h_src1, h_src2, kernel_size, matrix_rows, matrix_cols)


IsReference ==
    /\ matrix_rows = HEIGHT /\ matrix_cols = WIDTH /\ kernel_size = KERNEL_SIZE
    /\ h_src1 = RefSrc1 /\ h_src2 = RefSrc2

\* the last offset in [shift, cols - shift) at which the windowed dot product of
\* destination cell (r, c) is largest
LastMaxOffset(A, B, r, c, ks, cols) ==
    LET offsets == ShiftOnAxis(ks)..(cols - ShiftOnAxis(ks) - 1)
        score(i) == WindowSum(A, B, r, i - ShiftOnAxis(ks), c, ks, cols)
        best == Max({score(i) : i \in offsets})
    IN Max({i \in offsets : score(i) = best})

\* C8 as stated: for the 3x10 matrices src1 and src2 of main.cu and kernel_size 3 the
\* destination is 1x8 and each cell holds the offset i in [1, 9) that maximizes the
\* windowed dot product for the cell, ties resolved by the last-max rule.
C8_AsStated ==
    (IsReference /\ Returned("direct")) =>
        /\ DOMAIN h_dest = 0..7
        /\ \A c \in 0..7 :
            /\ h_dest[c] = LastMaxOffset(h_src1, h_src2, 0, c, kernel_size, matrix_cols)
            /\ 1 <= h_dest[c] /\ h_dest[c] < 9

\* C8 amended: for the 3x10 matrices src1 and src2 of main.cu and kernel_size 3 the
\* destination is 1x8 and each cell holds i - 1, a value in [0, 8), for the offset i in
\* [1, 9) that maximizes the windowed dot product for the cell, ties resolved by the
\* last-max rule: the row is 6 6 6 7 4 5 6 7.
C8_Reference ==
    (IsReference /\ Returned("direct")) =>
        /\ DOMAIN h_dest = 0..7
        /\ \A c \in 0..7 :
            /\ h_dest[c] = LastMaxOffset(h_src1, h_src2, 0, c, kernel_size, matrix_cols) - 1
            /\ 0 <= h_dest[c] /\ h_dest[c] < 8
        /\ h_dest = [c \in 0..7 |-> <<6, 6, 6, 7, 4, 5, 6, 7>>[c + 1]]

\* the reference call has returned, with a cell won by an offset that is not the last
C8_Witness ==
    /\ IsReference /\ Returned("direct")
    /\ h_dest[4] = 4 /\ scan[4].winner = 5

\* a source element within shift of an edge of the source
InBorder(p, ks, rows, cols) ==
    \/ p \div cols < ShiftOnAxis(ks) \/ p \div cols >= rows - ShiftOnAxis(ks)
    \/ p % cols < ShiftOnAxis(ks) \/ p % cols >= cols - ShiftOnAxis(ks)

\* the sources of a second run: one element of one source changed
BorderChanges(m) ==
    {[m EXCEPT ![p] = v] :
        p \in {q \in DOMAIN m : InBorder(q, kernel_size, matrix_rows, matrix_cols)},
        v \in Pixels}

\* C10 as stated: two runs whose sources differ only in elements within shift of a
\* source edge return the same destination matrix.
C10_AsStated ==
    Returned("direct") =>
        /\ \A a \in BorderChanges(h_src1) :
             DirectDest(a, h_src2, kernel_size, matrix_rows, matrix_cols) = h_dest
        /\ \A b \in BorderChanges(h_src2) :
             DirectDest(h_src1, b, kernel_size, matrix_rows, matrix_cols) = h_dest

\* rows r .. r+k-1 of a source: what destination row r reads of A
InRows(p, r, ks, cols) == r <= p \div cols /\ p \div cols <= r + ks - 1
\* rows r .. r+k-1, columns c .. c+k-1 of a source: what cell (r, c) reads of B
InWindow(p, r, c, ks, cols) ==
    InRows(p, r, ks, cols) /\ c <= p % cols /\ p % cols <= c + ks - 1

\* C10 amended: the destination has no cell centred within shift of a source edge, but
\* border elements are read: destination cell (r, c) depends on rows r..r+k-1 of A and
\* on rows r..r+k-1, columns c..c+k-1 of B, and on nothing else.  Two runs whose sources
\* differ only outside that region return the same value in the cell.
C10_Dependence ==
    Returned("direct") =>
        \A p \in DOMAIN h_src1, v \in Pixels, at \in DOMAIN h_dest :
            LET r == CellRow(at)
                c == CellCol(at)
            IN /\ ~InRows(p, r, kernel_size, matrix_cols) =>
                    DirectCell(r, c, [h_src1 EXCEPT ![p] = v], h_src2,
                               kernel_size, matrix_cols).value = h_dest[at]
               /\ ~InWindow(p, r, c, kernel_size, matrix_cols) =>
                    DirectCell(r, c, h_src1, [h_src2 EXCEPT ![p] = v],
                               kernel_size, matrix_cols).value = h_dest[at]

\* a returned run with source elements outside the region of a cell, in which changing
\* one border element of A changes the destination
C10_Witness ==
    /\ Returned("direct")
    /\ matrix_rows > kernel_size /\ matrix_cols > kernel_size
    /\ \E a \in BorderChanges(h_src1) :
         DirectDest(a, h_src2, kernel_size, matrix_rows, matrix_cols) # h_dest

\* a call that returned with every device call successful
CallOk == Orchestrated /\ hpc = "returned" /\ fault = {}

\* C11 as stated: a call of an orchestrator (direct or tiled) returns the destination
\* matrix that every earlier call of the same orchestrator with the same inputs returned.
C11_Idempotent ==
    (CallOk /\ variant \in {"direct", "shared"}) =>
        \A n \in 1..Len(history) :
            (history[n].ok /\ history[n].variant = variant) => history[n].h_dest = h_dest

\* C11 for crossCorrelation alone: whatever the order of blocks and threads, a call
\* returns the matrix the inputs determine, the one every earlier call returned.
C11_DirectIdempotent ==
    (CallOk /\ variant = "direct") =>
        /\ h_dest = DirectDest(h_src1, h_src2, kernel_size, matrix_rows, matrix_cols)
        /\ \A n \in 1..Len(history) :
            (history[n].ok /\ history[n].variant = "direct") => history[n].h_dest = h_dest

\* C12: in the tiled kernel, while a tile is resident, once any of its threads is past
\* the barrier and has done its compute phase no thread of the tile is still staging.
C12_Barrier ==
    (variant = "shared" /\ resident # NoBlock) =>
        ((\E t \in Threads : tpc[t] = "done") => \A u \in Threads : tpc[u] # "stage")

\* a tile of several threads that staged for more than one thread: one thread has
\* stored its result while another waits past the barrier
C12_Witness ==
    /\ variant = "shared" /\ resident # NoBlock /\ Cardinality(Threads) > 1
    /\ \E t, u \in Threads : tpc[t] = "done" /\ tpc[u] = "barrier"
    /\ Cardinality(staged) > matrix_cols
    /\ \E p \in DOMAIN writes : writes[p] > 0

\* the position of a step in the current orchestrator, and whether the call is past it
Pos(step) == CHOOSE n \in 1..Len(Steps[variant]) : Steps[variant][n] = step
Past(step) == hpc # "exited" /\ Pos(hpc) > Pos(step)
KernelRunning == pending # {} \/ resident # NoBlock
OwnLive == {ptr.d_src1, ptr.d_src2, ptr.d_dest} \subseteq heap

\* C13: in every orchestrator (the two plain and the two timed ones) the kernel runs
\* only after the launch, with both sources copied to the device and the three buffers
\* live; the destination is copied to the host only once the kernel has completed; and
\* no buffer of the call is freed before the copy-out.
C13_Order ==
    (Orchestrated /\ hpc # "exited") =>
        /\ KernelRunning =>
            /\ Past("launch") /\ ~Past("copy_dest")
            /\ d_src1 = h_src1 /\ d_src2 = h_src2
            /\ OwnLive
        /\ Past("copy_dest") => ~KernelRunning
        /\ (Past("launch") /\ ~Past("free")) => (d_src1 = h_src1 /\ d_src2 = h_src2)
        /\ (Past("malloc_dest") /\ ~Past("copy_dest")) => OwnLive
        /\ ~(own \subseteq heap) => Past("copy_dest")

\* the timed orchestrator without a device synchronisation is at its copy-out while
\* the kernel it launched is still running
C13_Witness ==
    /\ variant = "timed_alloc" /\ hpc = "copy_dest"
    /\ resident # NoBlock /\ \E p \in DOMAIN writes : writes[p] > 0

\* C14 as stated: a device call that does not succeed, whichever it is (allocation,
\* copy, launch, synchronize, free), ends the call on the diagnostic-and-exit path.
C14_AllChecked ==
    (Orchestrated /\ fault # {}) => hpc = "exited"

\* the steps whose status goes through checkCudaError, and the name each passes
Checked == DOMAIN CheckLines[variant]
FuncOf(step) == IF step \in {"malloc_src1", "malloc_src2", "malloc_dest"}
                THEN "cudaMalloc" ELSE "cudaMemcpy"

\* C15: when a checked device call fails the process has exited with exactly one
\* diagnostic, which carries the operation name, the error and the source line of that
\* call, and the host destination is as the caller passed it; as long as every checked
\* call has succeeded nothing has been written to the error stream and the call has not
\* exited; and after the exit no step of the orchestrator runs.
C15_CheckCudaError ==
    /\ [](Orchestrated =>
            /\ hpc = "exited" <=> fault \cap Checked # {}
            /\ hpc = "exited" =>
                /\ Len(cerr) = 1
                /\ \E step \in Checked :
                    /\ fault \cap Checked = {step}
                    /\ cerr[1] = [func |-> FuncOf(step), err |-> "cudaErrorUnknown",
                                  line |-> CheckLines[variant][step]]
                /\ h_dest = Filled(DestCells(kernel_size, matrix_rows, matrix_cols), 0)
            /\ hpc # "exited" => cerr = <<>>)
    /\ [][hpc # "exited"]_vars

\* the copy-out failed after the kernel had stored every cell: the process has exited
\* and the host destination holds no result
C15_Witness ==
    /\ hpc = "exited" /\ "copy_dest" \in fault
    /\ \A p \in DOMAIN writes : writes[p] = 1
    /\ \E p \in DOMAIN d_dest : d_dest[p] # 0

\* the cudaMalloc steps that come before a step in the current orchestrator
MallocsBefore(step) ==
    {m \in {"malloc_src1", "malloc_src2", "malloc_dest"} : Pos(m) < Pos(step)}

\* C16 as stated: when the process exits on a failed checked call, every device buffer
\* the call had allocated has been freed.
C16_FreedOnError ==
    (Orchestrated /\ hpc = "exited") => own \cap heap = {}

\* C16 amended: on the error path nothing is freed.  When a checked call fails the
\* process exits at once, and every buffer the call had allocated so far (one per
\* cudaMalloc that precedes the failed step) is still allocated at that moment.
C16_LiveAtExit ==
    (Orchestrated /\ hpc = "exited") =>
        /\ own \subseteq heap
        /\ \E step \in Checked :
            /\ fault \cap Checked = {step}
            /\ Cardinality(own) = Cardinality(MallocsBefore(step))

\* the third allocation failed: the process has exited with the two source buffers
\* still allocated
C16_Witness ==
    /\ hpc = "exited" /\ "malloc_dest" \in fault
    /\ Cardinality(own) = 2 /\ own \subseteq heap
    /\ d_src1 = h_src1 /\ d_src2 = h_src2

\* every call so far, the current one included, returned with all device calls successful
AllCallsOk == CallOk /\ \A n \in 1..Len(history) : history[n].ok

\* C17: no call uses or frees a buffer that is not live or not its own; and after any
\* sequence of successfully completed calls of the four orchestrators no device buffer
\* and no timing event is live, the last call having allocated exactly three buffers and
\* freed them, and a timed call having created exactly two events and destroyed them.
C17_NoLeak ==
    /\ ~misuse
    /\ AllCallsOk =>
        /\ heap = {} /\ events = {}
        /\ Cardinality(own) = 3
        /\ own = {ptr.d_src1, ptr.d_src2, ptr.d_dest}
        /\ IF Timed
           THEN ev.start # 0 /\ ev.stop # 0 /\ ev.start # ev.stop
                /\ {ev.start, ev.stop} \cap own = {}
           ELSE ev = NoEv

\* a successful timed call after a successful call of another orchestrator: the runtime
\* has handed out eight handles and none is live
C17_Witness ==
    /\ AllCallsOk /\ Len(history) = 1
    /\ history[1].variant = "shared" /\ variant = "timed_alloc"
    /\ issued = 8 /\ heap = {} /\ events = {}

\* the coordinates lines 222-226 / 348-352 give thread t of block b
ThreadCoords(b, t) ==
    IF variant = "shared"
    THEN SharedCoords(b[1], b[2], t[1], t[2], dimBlock.x, dimBlock.y, kernel_size)
    ELSE DirectCoords(b[1], b[2], t[1], t[2], dimBlock.x, dimBlock.y, kernel_size)

\* the thread's destination coordinates name a cell of the destination
InRegion(c) ==
    /\ c.dRow \in 0..(DestRows(kernel_size, matrix_rows) - 1)
    /\ c.dCol \in 0..(DestCols(kernel_size, matrix_cols) - 1)

\* thread t of the resident block runs its guarded part in this step
Computes(t) ==
    /\ resident # NoBlock /\ t \in DOMAIN tpc /\ tpc[t] \in {"run", "barrier"}
    /\ resident' = NoBlock \/ tpc'[t] = "done"

\* C18: in both kernels a thread whose coordinates are outside the destination region
\* stores nothing to the destination, and a thread inside it stores at most once, to the
\* index of its own cell, which lies in [0, dest_rows * dest_cols); no store of either
\* kernel falls outside the destination.
C18_Guard ==
    /\ [](Orchestrated => DOMAIN writes = 0..(DestCells(kernel_size, matrix_rows, matrix_cols) - 1))
    /\ [][\A t \in (IF resident = NoBlock THEN {} ELSE DOMAIN tpc) :
            Computes(t) =>
                LET c == ThreadCoords(resident, t)
                    pos == DPos(c.dRow, c.dCol, kernel_size, matrix_cols)
                IN /\ oob' = oob
                   /\ \/ writes' = writes /\ d_dest' = d_dest
                      \/ /\ InRegion(c)
                         /\ pos \in 0..(DestCells(kernel_size, matrix_rows, matrix_cols) - 1)
                         /\ writes' = [writes EXCEPT ![pos] = @ + 1]
                         /\ \A q \in DOMAIN d_dest \ {pos} : d_dest'[q] = d_dest[q]]_vars

\* a grid of the direct kernel that over-covers the destination on both axes has run to
\* completion: threads outside the region have run and every cell was stored once
C18_Witness ==
    /\ Returned("direct")
    /\ dimGrid.x * dimBlock.x > DestCols(kernel_size, matrix_cols)
    /\ dimGrid.y * dimBlock.y > DestRows(kernel_size, matrix_rows)
    /\ \E b \in (0..(dimGrid.x - 1)) \X (0..(dimGrid.y - 1)), t \in Threads :
            ~InRegion(ThreadCoords(b, t))
    /\ \A pos \in DOMAIN writes : writes[pos] = 1

\* a step of the kernel on the device
KernelStep == resident' # resident \/ tpc' # tpc

\* C19: a call never writes the caller's two source matrices; their device copies hold
\* the caller's values from the copy-in until they are freed, and no kernel step changes
\* them; the only matrix of the caller that a call writes is the destination, and only
\* in the copy-out.
C19_SourcesUnchanged ==
    /\ []((Orchestrated /\ hpc # "exited") =>
            /\ Past("copy_src1") => d_src1 \in {h_src1, <<>>}
            /\ Past("copy_src2") => d_src2 \in {h_src2, <<>>})
    /\ [][/\ h_src1' = h_src1 /\ h_src2' = h_src2
          /\ KernelStep => (d_src1' = d_src1 /\ d_src2' = d_src2 /\ h_dest' = h_dest)
          /\ (h_dest' # h_dest /\ hpc # "returned") => hpc = "copy_dest"]_vars

\* a compute-only timed call about to free its buffers: kernel run, destination copied
\* out with a non-zero offset in it, both device copies still equal to the sources
C19_Witness ==
    /\ variant = "timed_kernel" /\ hpc = "free" /\ fault = {}
    /\ d_src1 = h_src1 /\ d_src2 = h_src2
    /\ \E pos \in DOMAIN h_dest : h_dest[pos] # 0
    /\ \A pos \in DOMAIN writes : writes[pos] >= 1

\* the shared elements lines 459-464 read for a thread at source column sCol: of the
\* first sub-tile for every scanned offset, of the second around sCol
SharedReads1 ==
    {j * matrix_cols + k + (i - ShiftOnAxis(kernel_size)) :
        j \in 0..(dimBlock.y - 1), k \in 0..(2 * ShiftOnAxis(kernel_size)),
        i \in ScanFirst(kernel_size)..(ScanFirst(kernel_size) + ScanCount(kernel_size, matrix_cols) - 1)}
SharedReads2(sCol) ==
    {j * matrix_cols + l :
        j \in 0..(dimBlock.y - 1),
        l \in (sCol - ShiftOnAxis(kernel_size))..(sCol + ShiftOnAxis(kernel_size))}

\* C20: in the tiled kernel, every shared element that a thread passing the guard reads
\* after the barrier was stored during the staging phase of its own block.
C20_Staged ==
    (variant = "shared" /\ resident # NoBlock /\ BarrierOpen) =>
        \A t \in DOMAIN tpc :
            (tpc[t] = "barrier"
             /\ SharedGuard(ThreadCoords(resident, t), kernel_size, matrix_rows, matrix_cols))
            => (SharedReads1 \cup SharedReads2(ThreadCoords(resident, t).sCol)) \subseteq staged

\* the dynamic shared memory requested at the launch of line 534, in elements of T
SharedElems(ks, cols, bdim_y) == 2 * ((bdim_y + 2 * ShiftOnAxis(ks)) * cols)

\* line 355: where d_shmem2 starts inside d_shmem
Shmem2At == (dimBlock.y + 2 * ShiftOnAxis(kernel_size)) * matrix_cols

\* the indices of d_shmem (both sub-tiles) that thread t of block b stores in lines 383-421
StagedAddresses(b, t) ==
    LET ws == Staging(b[1], b[2], t[1], t[2], dimBlock.x, dimBlock.y, kernel_size, matrix_cols)
    IN {ws[n].sh : n \in 1..Len(ws)} \cup {Shmem2At + ws[n].sh : n \in 1..Len(ws)}

\* the indices of d_shmem that a thread at source column sCol reads in lines 459-464
ReadAddresses(sCol) ==
    SharedReads1 \cup {Shmem2At + a : a \in SharedReads2(sCol)}

\* C21: the shared memory requested at the launch of the tiled kernel holds the two
\* sub-tiles as the kernel lays them out, and every shared index that a thread of the
\* resident tile stores while staging or reads while computing lies inside the request.
C21_SharedFits ==
    (variant = "shared" /\ resident # NoBlock) =>
        /\ 2 * Shmem2At <= SharedElems(kernel_size, matrix_cols, block_dim_y)
        /\ \A t \in Threads :
            /\ \A a \in StagedAddresses(resident, t) :
                a \in 0..(SharedElems(kernel_size, matrix_cols, block_dim_y) - 1)
            /\ SharedGuard(ThreadCoords(resident, t), kernel_size, matrix_rows, matrix_cols) =>
                \A a \in ReadAddresses(ThreadCoords(resident, t).sCol) :
                    a \in 0..(SharedElems(kernel_size, matrix_cols, block_dim_y) - 1)

\* n tiles of extent tile are the fewest that cover extent elements
LeastCover(n, extent, tile) == (n - 1) * tile < extent /\ extent <= n * tile

\* the launch configuration is in force: tiles of block_dim_y x block_dim_x threads, and
\* the resident tile is one of the grid with that many threads
TileThreads ==
    /\ dimBlock.x = block_dim_y /\ dimBlock.y = block_dim_x
    /\ resident # NoBlock =>
        /\ Cardinality(DOMAIN tpc) = block_dim_y * block_dim_x
        /\ resident \in (0..(dimGrid.x - 1)) \X (0..(dimGrid.y - 1))

GridOverDest ==
    /\ LeastCover(dimGrid.x, DestCols(kernel_size, matrix_cols), block_dim_y)
    /\ LeastCover(dimGrid.y, DestRows(kernel_size, matrix_rows), block_dim_x)

GridOverSource ==
    /\ LeastCover(dimGrid.x, matrix_cols, block_dim_y)
    /\ LeastCover(dimGrid.y, matrix_rows, block_dim_x)

\* C22 as stated: every orchestrator, the tiled one included, launches a grid of
\* ceil(dest_cols / block_dim_y) x ceil(dest_rows / block_dim_x) tiles of
\* block_dim_y x block_dim_x threads.
C22_AsStated ==
    (Orchestrated /\ hpc # "entry") => (TileThreads /\ GridOverDest)

\* C22: the three orchestrators of the direct kernel launch a grid of
\* ceil(dest_cols / block_dim_y) x ceil(dest_rows / block_dim_x) tiles, the orchestrator
\* of the tiled kernel one of ceil(cols / block_dim_y) x ceil(rows / block_dim_x) tiles,
\* over the source extents; all of them with block_dim_y x block_dim_x threads per tile.
C22_Grid ==
    (Orchestrated /\ hpc # "entry") =>
        /\ TileThreads
        /\ IF variant = "shared" THEN GridOverSource ELSE GridOverDest

\* a tile of the tiled kernel is resident, in a grid larger than the destination needs,
\* with a tile that is not square
C22_Witness ==
    /\ variant = "shared" /\ resident # NoBlock
    /\ block_dim_x # block_dim_y
    /\ GridOverSource /\ ~GridOverDest

\* the indices of d_src1 and of d_src2 that thread t of block b loads in lines 383-421
StagedSources(b, t) ==
    LET ws == Staging(b[1], b[2], t[1], t[2], dimBlock.x, dimBlock.y, kernel_size, matrix_cols)
    IN {ws[n].src : n \in 1..Len(ws)}

\* C23: every element of the sources that a thread of the resident tile of the tiled
\* kernel loads while staging has an index below rows * cols.
C23_StagingInSource ==
    (variant = "shared" /\ resident # NoBlock) =>
        \A t \in Threads :
            \A a \in StagedSources(resident, t) : a \in 0..(matrix_rows * matrix_cols - 1)

\* the offsets i that line 236 scans
ScannedOffsets ==
    ScanFirst(kernel_size)..(ScanFirst(kernel_size) + ScanCount(kernel_size, matrix_cols) - 1)

\* the <<row, column>> of every element of d_src1 and of d_src2 that lines 236-242 read
\* for a thread with coordinates c
DirectReads1(c) ==
    {<<j, k + (i - ShiftOnAxis(kernel_size))>> :
        j \in (c.sRow - ShiftOnAxis(kernel_size))..(c.sRow + ShiftOnAxis(kernel_size)),
        k \in 0..(2 * ShiftOnAxis(kernel_size)), i \in ScannedOffsets}
DirectReads2(c) ==
    {<<j, l>> :
        j \in (c.sRow - ShiftOnAxis(kernel_size))..(c.sRow + ShiftOnAxis(kernel_size)),
        l \in (c.sCol - ShiftOnAxis(kernel_size))..(c.sCol + ShiftOnAxis(kernel_size))}

GridBlocks == (0..(dimGrid.x - 1)) \X (0..(dimGrid.y - 1))

\* C24: in the direct kernel every read of either source by a thread that passes the
\* guard is of a row in [0, rows) and a column in [0, cols), hence of an index below
\* rows * cols; the scan has at least one offset, and the value stored in a cell is the
\* one kept for a scanned offset.
C24_DirectReads ==
    (variant = "direct" /\ hpc # "entry") =>
        /\ ScannedOffsets # {}
        /\ \A b \in GridBlocks, t \in Threads :
            LET c == ThreadCoords(b, t) IN
            DirectGuard(c, kernel_size, matrix_rows, matrix_cols) =>
                \A r \in DirectReads1(c) \cup DirectReads2(c) :
                    /\ r[1] \in 0..(matrix_rows - 1) /\ r[2] \in 0..(matrix_cols - 1)
                    /\ r[1] * matrix_cols + r[2] < matrix_rows * matrix_cols
        /\ \A pos \in DOMAIN d_dest :
            writes[pos] >= 1 =>
                /\ scan[pos].winner \in ScannedOffsets
                /\ d_dest[pos] = ToT(KeptIndex(scan[pos].winner, kernel_size))

\* the direct kernel has run on the largest matrices with the smallest window, in a grid
\* that over-covers the destination, and the cell in the last row and column is stored
C24_Witness ==
    /\ variant = "direct" /\ KernelCompleted /\ d_dest # <<>>
    /\ kernel_size = Min(KernelSizes) /\ matrix_rows = MaxRows /\ matrix_cols = MaxCols
    /\ dimGrid.x * dimBlock.x > DestCols(kernel_size, matrix_cols)
    /\ writes[DestCells(kernel_size, matrix_rows, matrix_cols) - 1] = 1

\* C25: with T an unsigned 8-bit type, the score the direct kernel compares for every
\* scanned offset of a cell is the exact sum of the products of the two windows.
C25_ExactSum ==
    Probed =>
        \A n \in 1..Len(probe.tmps) :
            probe.tmps[n] = WindowSum(h_src1, h_src2, CellRow(probe.dPos), n - 1,
                                      CellCol(probe.dPos), kernel_size, matrix_cols)

\* C26: with T an unsigned 8-bit type and matrices as wide as the sweep makes them, the
\* value the direct kernel stores in a cell is the index it kept for the winning offset.
C26_StoredIndex ==
    (Probed /\ probe.stored) => probe.value = KeptIndex(probe.acc.winner, kernel_size)

\* the calls on the two timing events
EventSteps == {"create_start", "create_stop", "record_start", "record_stop",
               "event_synchronize", "elapsed_time", "destroy_events"}

\* the destination of the caller is as it was passed
DestUntouched == h_dest = Filled(DestCells(kernel_size, matrix_rows, matrix_cols), 0)

\* the kernel has not been launched
NotLaunched == ~KernelRunning /\ \A p \in DOMAIN writes : writes[p] = 0

\* where the two timed orchestrators record their events
Bracket ==
    /\ variant = "timed_alloc" =>
        /\ hpc = "record_start" => (NotLaunched /\ DestUntouched)
        /\ (Past("record_start") /\ ~Past("copy_src1")) => NotLaunched
        /\ Past("copy_src1") => Past("record_start")
        /\ Past("record_stop") => (Past("copy_dest") /\ Past("launch"))
    /\ variant = "timed_kernel" =>
        /\ hpc = "record_start" =>
            (Past("copy_src2") /\ d_src1 = h_src1 /\ d_src2 = h_src2 /\ NotLaunched)
        /\ Past("launch") => Past("record_start")
        /\ hpc = "record_stop" => Pos("launch") + 1 = Pos(hpc)
        /\ Past("record_stop") => Past("launch")
        /\ ~Past("elapsed_time") => (~Past("copy_dest") /\ DestUntouched)

\* C27 as stated: crossCorrelationTimeWithAllocation records start before the first
\* copy-in and stop after the copy-out; crossCorrelationTimeWithoutAllocation records
\* start after both copies-in and stop directly after the launch, before the copy-out;
\* and in both the elapsed time is read only once the work the stop event follows (the
\* kernel) has completed.
C27_Bracket ==
    (Timed /\ hpc # "exited") =>
        /\ Bracket
        /\ Past("event_synchronize") => KernelDone

\* C27 for calls whose event calls all succeed: the same bracketing, and the elapsed
\* time is read only once the kernel has completed.
C27_BracketOk ==
    (Timed /\ hpc # "exited") =>
        /\ Bracket
        /\ (Past("event_synchronize") /\ fault \cap EventSteps = {}) => KernelDone


\* ------------------------------------------------- the benchmark mains
\* benchmark.cu lines 36-40 (the same values at lines 102-106 of
\* standard_formats_benchmark.cu, which has no size ladder)
MIN_SIZE == 32
KERNEL_SIZE_MIN == 3
KERNEL_SIZE_MAX == 11
BLOCK_DIM_MIN == 8

Harnesses == {"benchmark", "standard_formats"}

\* the thread limits a device may report: squares of tile sides and their
\* predecessors, so that the square root is exact for some and truncated for others
DeviceLimits ==
    {s * s - d : s \in {1, BLOCK_DIM_MIN, 2 * BLOCK_DIM_MIN, 4 * BLOCK_DIM_MIN, MaxTileSide},
                 d \in {0, 1}} \ {0}

\* the catalogue `form` is declared extern and defined elsewhere; its formats are
\* <<rows, cols>> pairs drawn from a few extents below, at and above the tile floor
FormatExtents == {KERNEL_SIZE_MIN + 2, BLOCK_DIM_MIN, 2 * BLOCK_DIM_MIN, MaxFormatExtent}
Formats == FormatExtents \X FormatExtents
Catalogues == UNION {[1..n -> Formats] : n \in 0..MaxFormats}

\* line 51 / 116: std::sqrt of the int limit, truncated by the conversion to size_t
WholeLimit(n) == n
IntSqrt(n) == CHOOSE s \in 0..n : s * s <= n /\ (s + 1) * (s + 1) > n

\* the loop conditions of lines 56 / 123 and 57 / 124
BlockFits(b, rows, cols, limit) == b <= rows /\ b <= cols /\ b <= limit
KernelFitsBelow(ks, rows, cols) == ks <= rows /\ ks <= cols /\ ks < KERNEL_SIZE_MAX
KernelFits(ks, rows, cols) == ks <= rows /\ ks <= cols /\ ks <= KERNEL_SIZE_MAX

idleVars == <<variant, h_src1, h_src2, h_dest, garbage, localVars, d_src1, d_src2, d_dest,
              deviceVars, heapVars, eventVars, logVars, probe>>

InitBench ==
    /\ variant \in Harnesses
    /\ maxThreadsPerBlock \in DeviceLimits
    /\ max_thread_per_block = 0
    /\ form \in (IF variant = "standard_formats" THEN Catalogues ELSE {<<>>})
    /\ kernel_size = 0 /\ matrix_rows = 0 /\ matrix_cols = 0
    /\ block_dim_x = 0 /\ block_dim_y = 0
    /\ h_src1 = <<>> /\ h_src2 = <<>> /\ h_dest = <<>>
    /\ garbage = 0
    /\ hpc = "main"
    /\ src_size = 0 /\ dest_size = 0
    /\ d_src1 = <<>> /\ d_src2 = <<>> /\ d_dest = <<>>
    /\ dimGrid = [x |-> 0, y |-> 0]
    /\ dimBlock = [x |-> 0, y |-> 0]
    /\ pending = {}
    /\ resident = NoBlock
    /\ tpc = <<>>
    /\ d_shmem1 = <<>> /\ d_shmem2 = <<>>
    /\ staged = {}
    /\ heap = {} /\ ptr = NoPtr /\ issued = 0 /\ own = {} /\ misuse = FALSE
    /\ events = {} /\ ev = NoEv
    /\ fault = {} /\ cerr = <<>>
    /\ history = <<>>
    /\ writes = <<>> /\ scan = <<>>
    /\ oob = FALSE
    /\ probe = NoProbe

\* lines 47-51 / 112-116, and the initialisation of the outermost loop
BenchMain ==
    /\ variant \in Harnesses /\ hpc = "main"
    /\ max_thread_per_block' = IntSqrt(maxThreadsPerBlock)
    /\ IF variant = "benchmark"
       THEN matrix_rows' = MIN_SIZE /\ matrix_cols' = MIN_SIZE /\ hpc' = "size_loop"
       ELSE UNCHANGED <<matrix_rows, matrix_cols>> /\ hpc' = "format_loop"
    /\ UNCHANGED <<kernel_size, block_dim_x, block_dim_y, maxThreadsPerBlock, form,
                   history, idleVars>>

\* line 55: for (rows_cols = MIN_SIZE; rows_cols <= MAX_SIZE; rows_cols *= 2)
SizeLoop ==
    /\ variant = "benchmark" /\ hpc = "size_loop"
    /\ IF matrix_rows <= MAX_SIZE
       THEN /\ block_dim_x' = BLOCK_DIM_MIN /\ block_dim_y' = BLOCK_DIM_MIN
            /\ hpc' = "block_loop"
       ELSE /\ UNCHANGED <<block_dim_x, block_dim_y>>
            /\ hpc' = "exited"
    /\ UNCHANGED <<kernel_size, matrix_rows, matrix_cols, benchVars, history, idleVars>>

\* lines 120-122: for (auto format : form), rows and cols taken from the format
FormatLoop ==
    /\ variant = "standard_formats" /\ hpc = "format_loop"
    /\ IF form # <<>>
       THEN /\ matrix_rows' = Head(form)[1] /\ matrix_cols' = Head(form)[2]
            /\ form' = Tail(form)
            /\ block_dim_x' = BLOCK_DIM_MIN /\ block_dim_y' = BLOCK_DIM_MIN
            /\ hpc' = "block_loop"
       ELSE /\ UNCHANGED <<matrix_rows, matrix_cols, form, block_dim_x, block_dim_y>>
            /\ hpc' = "exited"
    /\ UNCHANGED <<kernel_size, maxThreadsPerBlock, max_thread_per_block, history, idleVars>>

\* line 56 / 123: the tile loop's test; when it fails the enclosing loop advances
BlockLoop ==
    /\ variant \in Harnesses /\ hpc = "block_loop"
    /\ IF BlockFits(block_dim_x, matrix_rows, matrix_cols, max_thread_per_block)
       THEN /\ kernel_size' = KERNEL_SIZE_MIN
            /\ hpc' = "kernel_loop"
            /\ UNCHANGED <<matrix_rows, matrix_cols>>
       ELSE /\ UNCHANGED kernel_size
            /\ IF variant = "benchmark"
               THEN /\ matrix_rows' = 2 * matrix_rows /\ matrix_cols' = 2 * matrix_cols
                    /\ hpc' = "size_loop"
               ELSE /\ UNCHANGED <<matrix_rows, matrix_cols>>
                    /\ hpc' = "format_loop"
    /\ UNCHANGED <<block_dim_x, block_dim_y, benchVars, history, idleVars>>

\* line 57 / 124: the window loop's test; when it fails the tile side doubles
KernelLoop ==
    /\ variant \in Harnesses /\ hpc = "kernel_loop"
    /\ IF KernelFits(kernel_size, matrix_rows, matrix_cols)
       THEN /\ hpc' = "benchmark"
            /\ UNCHANGED <<block_dim_x, block_dim_y>>
       ELSE /\ block_dim_x' = 2 * block_dim_x /\ block_dim_y' = 2 * block_dim_y
            /\ hpc' = "block_loop"
    /\ UNCHANGED <<kernel_size, matrix_rows, matrix_cols, benchVars, history, idleVars>>

\* line 58 / 125: the call of benchmark<uint8_t>, which returns before the window
\* size advances; its arguments are recorded in the order of the calls
Invocation ==
    [rows |-> matrix_rows, cols |-> matrix_cols, kernel_size |-> kernel_size,
     block_dim_x |-> block_dim_x, block_dim_y |-> block_dim_y]
BenchmarkCall ==
    /\ variant \in Harnesses /\ hpc = "benchmark"
    /\ history' = Append(history, Invocation)
    /\ kernel_size' = kernel_size + 2
    /\ hpc' = "kernel_loop"
    /\ UNCHANGED <<matrix_rows, matrix_cols, block_dim_x, block_dim_y, benchVars, idleVars>>

NextBench == BenchMain \/ SizeLoop \/ FormatLoop \/ BlockLoop \/ KernelLoop \/ BenchmarkCall

\* main is sequential code, so a step that is possible is eventually taken
SpecBench == InitBench /\ [][NextBench]_vars /\ WF_vars(NextBench)


\* ---------------------------------------------------------------- C28
RECURSIVE Doublings(_, _)
Doublings(first, last) == IF first > last THEN {} ELSE {first} \cup Doublings(2 * first, last)
IsTileSide(b) == b \in Doublings(BLOCK_DIM_MIN, b)
Precondition(c) ==
    /\ c.kernel_size % 2 = 1
    /\ c.kernel_size >= KERNEL_SIZE_MIN /\ c.kernel_size <= KERNEL_SIZE_MAX
    /\ c.kernel_size <= Min({c.rows, c.cols})
    /\ c.block_dim_x = c.block_dim_y
    /\ IsTileSide(c.block_dim_x)
    /\ c.block_dim_x <= Min({c.rows, c.cols})
    /\ c.block_dim_x * c.block_dim_y <= maxThreadsPerBlock
\* C28: every invocation that either benchmark main has issued or is about to issue
\* has an odd kernel_size between 3 and 11 that is at most min(rows, cols), and a
\* square tile whose side is 8 times a power of two, at most min(rows, cols), and
\* whose thread count is at most the device's maximum threads per block
C28_Preconditions ==
    variant \in Harnesses =>
        /\ \A i \in 1..Len(history) : Precondition(history[i])
        /\ hpc = "benchmark" => Precondition(Invocation)
\* the standard-formats main has finished after a call on a non-square format and a
\* call whose tile fills the device's thread limit with the largest window
C28_Witness ==
    /\ variant = "standard_formats" /\ hpc = "exited"
    /\ \E i \in 1..Len(history) : history[i].rows # history[i].cols
    /\ \E i \in 1..Len(history) :
          /\ history[i].block_dim_x * history[i].block_dim_y = maxThreadsPerBlock
          /\ history[i].kernel_size = KERNEL_SIZE_MAX


\* ---------------------------------------------------------------- C29
Combination(size, tile, window) ==
    [rows |-> size, cols |-> size, kernel_size |-> window,
     block_dim_x |-> tile, block_dim_y |-> tile]
\* the combinations with the tile side bounded by the device's thread limit itself
CombinationsAsStated ==
    {Combination(size, tile, window) :
        size \in Doublings(MIN_SIZE, MAX_SIZE),
        tile \in {t \in Doublings(BLOCK_DIM_MIN, MAX_SIZE) : t <= maxThreadsPerBlock},
        window \in {w \in KERNEL_SIZE_MIN..KERNEL_SIZE_MAX : w % 2 = 1}}
\* the combinations with the tile's thread count bounded by the device's thread limit
Combinations ==
    {c \in {Combination(size, tile, window) :
                size \in Doublings(MIN_SIZE, MAX_SIZE),
                tile \in Doublings(BLOCK_DIM_MIN, MAX_SIZE),
                window \in {w \in KERNEL_SIZE_MIN..KERNEL_SIZE_MAX : w % 2 = 1}} :
        /\ c.block_dim_x <= c.rows
        /\ c.block_dim_x * c.block_dim_y <= maxThreadsPerBlock}
OncePerCombination(expected) ==
    /\ {history[i] : i \in 1..Len(history)} = expected
    /\ Len(history) = Cardinality(expected)
SyntheticDone == variant = "benchmark" /\ hpc = "exited"
\* C29 as stated: when the synthetic sweep has exited, the benchmark has been invoked
\* exactly once for every size in {32, ..., 512}, every doubling of 8 that is at most
\* the lesser of the size and the device's maximum threads per tile, and every odd
\* window in {3, ..., 11}
C29_AsStated ==
    SyntheticDone =>
        OncePerCombination({c \in CombinationsAsStated : c.block_dim_x <= c.rows})
\* C29: for any device limit the synthetic sweep exits; a call is issued only from
\* the call statement, one at a time, and has returned when the sweep moves on; and at
\* exit the benchmark has been invoked exactly once for every size in {32, ..., 512},
\* every doubling of 8 that is at most the size and whose square is at most the
\* device's maximum threads per block, and every odd window in {3, ..., 11}
C29_Sweep ==
    /\ [](SyntheticDone => OncePerCombination(Combinations))
    /\ [][history' # history =>
            /\ hpc = "benchmark" /\ hpc' = "kernel_loop"
            /\ history' = Append(history, Invocation)]_vars
    /\ (variant = "benchmark") ~> SyntheticDone
\* the sweep has exited after a call on the largest size with the largest window and
\* a tile that fills the device's thread limit
C29_Witness ==
    /\ SyntheticDone
    /\ \E i \in 1..Len(history) :
          /\ history[i].rows = MAX_SIZE
          /\ history[i].kernel_size = KERNEL_SIZE_MAX
          /\ history[i].block_dim_x * history[i].block_dim_y = maxThreadsPerBlock


\* ------------------------------------------------- the launch under fairness

\* entry of the direct and of the tiled orchestrator for every window and tile shape
\* of the kernel model and the smallest extents, with one pair of sources
LiveDims(ks) == {d \in ks..(ks + LiveSpread) : d <= MaxRows /\ d <= MaxCols}
InitLive ==
    \E v \in {"direct", "shared"}, ks \in KernelSizes, shape \in TileShapes :
      \E rows \in LiveDims(ks), cols \in LiveDims(ks) :
        Entry(v, ks, rows, cols, shape[1], shape[2],
              Stripe(1, rows * cols), Stripe(MaxSeed, rows * cols), 0)

\* the device runs every queued block and every thread of the resident block, and
\* the host goes on when its call returns: a step that stays possible is taken
SpecLive == InitLive /\ [][Next]_vars /\ WF_vars(Next)

\* ---------------------------------------------------------------- C30
TiledRunning == variant = "shared" /\ resident # NoBlock
AllArrived == resident # NoBlock /\ BarrierOpen
HostLeft == hpc \in {"returned", "exited"}
====
